---------------------------- MODULE Spec2Model ----------------------------
(***************************************************************************)
(* SWU Organizer (src/src/App.tsx): binder coordinates, card normalizer,   *)
(* multi-set catalog cache, search suggestions and the inventory ledger.   *)
(*                                                                         *)
(* A JavaScript string is modelled as a sequence of one-character strings, *)
(* so that trim, toLowerCase, the search normalizer, indexOf, Number() and *)
(* String() are computed character by character as the code computes them.*)
(***************************************************************************)
EXTENDS Integers, Sequences, FiniteSets, TLC

VARIABLES
    sets,            \* useState sets: the manifest's set keys, in order       (App.tsx:487)
    setKey,          \* useState setKey: the active set key                    (App.tsx:488)
    parsedCache,     \* parsedCacheRef: the ParsedSets, Map insertion order   (App.tsx:508)
    shown,           \* the ParsedSet whose cards the states cardsAll, cardsBase,
                     \* baseToAll and altToBase hold                        (App.tsx:532-536)
    inventory,       \* useState inventory: the in-memory ledger               (App.tsx:631)
    store,           \* localStorage "inv:<key>": the persisted JSON per set   (App.tsx:633,637)
    importData,      \* useState importData: the parsed import                 (App.tsx:492)
    showImportModal, \* useState showImportModal                               (App.tsx:491)
    error,           \* useState error: the user-visible message               (App.tsx:658)
    loads,           \* load() invocations suspended at an await               (App.tsx:800)
    fetches,         \* parseAndCache calls suspended at their fetch           (App.tsx:747)
    query,           \* useState query: the search box text                    (App.tsx:657)
    suggestions,     \* useMemo suggestions                                    (App.tsx:879)
    snapshot,        \* the file last written by exportAllInv                  (App.tsx:1215)
    filters,         \* useState filters: aspect, rarity and type lists        (App.tsx:678)
    active,          \* useState active: the selected card and its slot        (App.tsx:659)
    viewSpread,      \* useState viewSpread: the spread on display             (App.tsx:688)
    pendingSelection \* useState pendingSelection: a choice awaiting its set   (App.tsx:669)

vars == <<sets, setKey, parsedCache, shown, inventory, store, importData,
          showImportModal, error, loads, fetches, query, suggestions, snapshot,
          filters, active, viewSpread, pendingSelection>>

-----------------------------------------------------------------------------
(* Sequences and characters *)

Range(s) == {s[i] : i \in DOMAIN s}

Min(a, b) == IF a <= b THEN a ELSE b
Max(a, b) == IF a >= b THEN a ELSE b

UpperLetters == <<"A","B","C","D","E","F","G","H","I","J","K","L","M",
                  "N","O","P","Q","R","S","T","U","V","W","X","Y","Z">>
LowerLetters == <<"a","b","c","d","e","f","g","h","i","j","k","l","m",
                  "n","o","p","q","r","s","t","u","v","w","x","y","z">>
Digits == <<"0","1","2","3","4","5","6","7","8","9">>

LowerChar(c) ==
    IF \E i \in DOMAIN UpperLetters : UpperLetters[i] = c
    THEN LowerLetters[CHOOSE i \in DOMAIN UpperLetters : UpperLetters[i] = c]
    ELSE c

UpperChar(c) ==
    IF \E i \in DOMAIN LowerLetters : LowerLetters[i] = c
    THEN UpperLetters[CHOOSE i \in DOMAIN LowerLetters : LowerLetters[i] = c]
    ELSE c

toLowerCase(s) == [i \in DOMAIN s |-> LowerChar(s[i])]
toUpperCase(s) == [i \in DOMAIN s |-> UpperChar(s[i])]

IsDigit(c) == c \in Range(Digits)
IsSpace(c) == c = " "

RECURSIVE trimStart(_)
trimStart(s) == IF s # <<>> /\ IsSpace(Head(s)) THEN trimStart(Tail(s)) ELSE s

RECURSIVE trimEnd(_)
trimEnd(s) ==
    IF s # <<>> /\ IsSpace(s[Len(s)]) THEN trimEnd(SubSeq(s, 1, Len(s) - 1)) ELSE s

trim(s) == trimEnd(trimStart(s))

\* s.indexOf(sub), zero-based, -1 when absent
indexOf(s, sub) ==
    LET hits == {i \in 0..(Len(s) - Len(sub)) : SubSeq(s, i + 1, i + Len(sub)) = sub}
    IN IF hits = {} THEN -1 ELSE CHOOSE i \in hits : \A j \in hits : i <= j

\* /^[0-9]+$/.test(s)
isDigits(s) == s # <<>> /\ \A i \in DOMAIN s : IsDigit(s[i])

DigitVal(c) == (CHOOSE i \in DOMAIN Digits : Digits[i] = c) - 1

\* Number(s) for a digits-only string
RECURSIVE NumberOfDigits(_)
NumberOfDigits(s) ==
    IF s = <<>> THEN 0
    ELSE 10 * NumberOfDigits(SubSeq(s, 1, Len(s) - 1)) + DigitVal(s[Len(s)])

\* String(n) for a non-negative integer: canonical decimal digits
RECURSIVE StringOfNat(_)
StringOfNat(n) ==
    IF n < 10 THEN <<Digits[n + 1]>>
    ELSE StringOfNat(n \div 10) \o <<Digits[(n % 10) + 1]>>

\* raw.replace(/^0+/, '')
RECURSIVE stripLeadingZeros(_)
stripLeadingZeros(s) ==
    IF s # <<>> /\ Head(s) = "0" THEN stripLeadingZeros(Tail(s)) ELSE s

-----------------------------------------------------------------------------
(* Coordinate mapper *)

\* JavaScript a % b for b > 0: the result takes the sign of a
jsRem(a, b) == IF a >= 0 THEN a % b ELSE 0 - ((0 - a) % b)

binderLayout(n) ==
    [page   |-> ((n - 1) \div 12) + 1,
     row    |-> (jsRem(n - 1, 12) \div 4) + 1,
     column |-> jsRem(n - 1, 4) + 1]

getSpreadCoords(page, row, column) ==
    [spreadCol |-> IF jsRem(page, 2) # 0 THEN column + 4 ELSE column,
     spreadRow |-> row]

\* a slot numbering with rows of three
numberFromPRC_RowsOfThree(page, row, col) == (page - 1) * 12 + (row - 1) * 3 + col

numberFromPRC(page, row, col) == (page - 1) * 12 + (row - 1) * 4 + col

pageToSpread(p) == IF p <= 1 THEN 0 ELSE ((p - 2) \div 2) + 1

\* a primary page that is the right-hand page of the spread
spreadToPrimaryPage_RightHand(s) == IF s <= 0 THEN 1 ELSE 3 + (s - 1) * 2

spreadToPrimaryPage(s) == IF s <= 0 THEN 1 ELSE 2 + (s - 1) * 2

Leader == <<"l","e","a","d","e","r">>
Base   == <<"b","a","s","e">>

quotaForType(type) ==
    LET t == toLowerCase(type)
    IN IF t = Leader \/ t = Base THEN 1 ELSE 3


-----------------------------------------------------------------------------
(* Strings used by the set files *)

NoString == <<>>  \* undefined / '' (both falsy, both lowercased to '')

\* Number(x) of a JSON string: '' and blanks give 0, an optionally signed run of
\* digits gives its value, anything else NaN.
NumberOf(s) ==
    LET t == trim(s)
    IN IF t = <<>> THEN [nan |-> FALSE, val |-> 0]
       ELSE IF isDigits(t) THEN [nan |-> FALSE, val |-> NumberOfDigits(t)]
       ELSE IF Head(t) = "-" /\ isDigits(Tail(t))
            THEN [nan |-> FALSE, val |-> 0 - NumberOfDigits(Tail(t))]
       ELSE [nan |-> TRUE, val |-> 0]

\* A stable sort: s reordered so that Lt-smaller elements come first and elements
\* that Lt does not order keep their relative order (Array.prototype.sort).
StableSort(s, Lt(_, _)) ==
    LET pos(i) == 1 + Cardinality({j \in DOMAIN s :
                        j # i /\ (Lt(s[j], s[i]) \/ (~Lt(s[i], s[j]) /\ j < i))})
    IN [k \in DOMAIN s |-> s[CHOOSE i \in DOMAIN s : pos(i) = k]]

\* The keys of a Map in insertion order, from the sequence of keys set on it
RECURSIVE InsertionOrder(_)
InsertionOrder(ks) ==
    IF ks = <<>> THEN <<>>
    ELSE LET front == InsertionOrder(SubSeq(ks, 1, Len(ks) - 1))
             k == ks[Len(ks)]
         IN IF k \in Range(front) THEN front ELSE Append(front, k)

-----------------------------------------------------------------------------
(* Rarity normalization *)

Common    == <<"C","o","m","m","o","n">>
Uncommon  == <<"U","n","c","o","m","m","o","n">>
Rare      == <<"R","a","r","e">>
Legendary == <<"L","e","g","e","n","d","a","r","y">>
Special   == <<"S","p","e","c","i","a","l">>

RarityTable ==
    << <<<<"c">>, Common>>, <<<<"c","o","m","m","o","n">>, Common>>,
       <<<<"u">>, Uncommon>>, <<<<"u","n","c","o","m","m","o","n">>, Uncommon>>,
       <<<<"r">>, Rare>>, <<<<"r","a","r","e">>, Rare>>,
       <<<<"l">>, Legendary>>, <<<<"l","e","g","e","n","d","a","r","y">>, Legendary>>,
       <<<<"s">>, Special>>,
       <<<<"s","t","a","r","t","e","r">>, Special>>,
       <<<<"s","t","a","r","t","e","r"," ","d","e","c","k"," ","e","x","c","l","u","s","i","v","e">>, Special>>,
       <<<<"s","t","a","r","t","e","r"," ","d","e","c","k","-","e","x","c","l","u","s","i","v","e">>, Special>>,
       <<<<"s","p","e","c","i","a","l">>, Special>> >>

\* normalizeRarity: '' / undefined pass through as undefined; a table hit gives the
\* canonical name; any other value passes through trimmed.
normalizeRarity(r) ==
    IF r = NoString THEN NoString
    ELSE LET v == trim(r)
             k == toLowerCase(v)
             hit == {i \in DOMAIN RarityTable : RarityTable[i][1] = k}
         IN IF hit # {} THEN RarityTable[CHOOSE i \in hit : TRUE][2] ELSE v

-----------------------------------------------------------------------------
(* The static set files: /sets/manifest.json and one card list per set key *)

SOR == <<"S","O","R">>
SHD == <<"S","H","D">>
LOF == <<"L","O","F">>

NoSet == <<>>     \* no set: nothing displayed yet

Unit    == <<"U","n","i","t">>
Event   == <<"E","v","e","n","t">>
Upgrade == <<"U","p","g","r","a","d","e">>
LeaderT == <<"L","e","a","d","e","r">>
BaseT   == <<"B","a","s","e">>

Raw(name, subtitle, number, aspects, type, rarity, price) ==
    [Name |-> name, Subtitle |-> subtitle, Number |-> number, Aspects |-> aspects,
     Type |-> type, Rarity |-> rarity, MarketPrice |-> price]

\* SOR: a unit with an alt printing (#3 and, without aspects, #5)
RawSOR ==
    << Raw(<<"Y","o","d","a">>,  NoString,  <<"0","0","3">>, <<"Vigilance">>, Unit,    <<"L","e","g","e","n","d","a","r","y">>, 5),
       Raw(<<"Y","o","d","a">>,  NoString,  <<"0","0","5">>, <<>>,            Unit,    <<"L","e","g","e","n","d","a","r","y">>, 9) >>

\* LOF: a leader and a base whose name holds a digit
RawLOF ==
    << Raw(<<"V","a","d","e","r">>,    NoString, <<"1">>, <<"Villainy">>, LeaderT,  <<"S","p","e","c","i","a","l">>, 7),
       Raw(<<"H","a","n","g","a","r"," ","5">>, NoString, <<"3">>, <<>>,           BaseT, <<"c","o","m","m","o","n">>,  1) >>

\* SHD: ten named cards (two records share #2, one card is numbered 0, one is on
\* page 2, a leader and a unit share the name Jabba), a record with no name and a
\* token whose number is not numeric
RawSHD ==
    << Raw(<<"H","a","n">>,    NoString,    <<"1">>,   <<"Cunning">>,  Unit,    <<"R","a","r","e">>,     4),
       Raw(<<"P","r","o","b","e">>,  NoString,    <<"2">>,   <<>>,           Unit,    <<"R","a","r","e">>,     1),
       Raw(<<"H","K","-","1">>,   NoString,    <<"2">>,   <<"Villainy">>, Unit,    <<"R","a","r","e">>,     1),
       Raw(<<"L","a","n","d","o">>,  NoString,    <<"3">>,   <<"Cunning">>,  Unit,    <<"R","a","r","e">>,     2),
       Raw(NoString,  NoString,    <<"9">>,   <<>>,           Unit,    <<"C","o","m","m","o","n">>,   0),
       Raw(<<"J","a","b","b","a">>,  <<"T","h","e"," ","H","u","t","t">>, <<"4">>,   <<"Villainy">>, LeaderT, <<"S","p","e","c","i","a","l">>,  6),
       Raw(<<"M","a","u","l">>,   NoString,    <<"6">>,   <<>>,           Unit,    <<"S","t","a","r","t","e","r">>,  1),
       Raw(<<"T","o","k","e","n">>,  NoString,    <<"T","0","1">>, <<>>,           Unit,    NoString,    0),
       Raw(<<"K","a","n","a","n">>,  NoString,    <<"7">>,   <<"Heroism">>,  Upgrade, <<"U","n","c","o","m","m","o","n">>, 1),
       Raw(<<"S","a","b","a","c","c">>, NoString,    <<"0">>,   <<>>,           Event,   <<"C","o","m","m","o","n">>,   1),
       Raw(<<"H","e","r","a">>,   NoString,    <<"1","4">>,  <<"Command">>,  Unit,    <<"C","o","m","m","o","n">>,   2),
       Raw(<<"A","h","s","o","k","a">>, NoString,    <<"8">>,   <<"Heroism">>,  Unit,    <<"R","a","r","e">>,     3),
       Raw(<<"J","a","b","b","a">>,  NoString,    <<"1","0">>,  <<"Villainy">>, Unit,    <<"R","a","r","e">>,     2) >>

AllSetKeys == {SOR, SHD, LOF}

-----------------------------------------------------------------------------
(* Card normalizer: parseAndCache's parsing, baseOnly, buildAltMaps *)

\* stable key for dedupe/show: name|subtitle|type, trimmed and lowercased
keyNameType(c) ==
    toLowerCase(trim(c.Name)) \o <<"|">> \o toLowerCase(trim(c.Subtitle))
        \o <<"|">> \o toLowerCase(trim(c.Type))

\* data.map(...): one raw record coerced to the Card shape
mapCard(c, key) ==
    [Name        |-> trim(c.Name),
     Subtitle    |-> trim(c.Subtitle),
     Number      |-> NumberOf(c.Number).val,
     Aspects     |-> c.Aspects,
     Type        |-> c.Type,
     Rarity      |-> normalizeRarity(c.Rarity),
     MarketPrice |-> c.MarketPrice,
     Set         |-> key]

\* .filter(c => !!c.Name && Number.isFinite(c.Number))
keepMapped(c) == trim(c.Name) # NoString /\ ~NumberOf(c.Number).nan

mapped(data, key) ==
    LET kept == SelectSeq(data, keepMapped)
    IN [i \in DOMAIN kept |-> mapCard(kept[i], key)]

\* the comparator of the dedupe sort: records with aspects first, then by Number
aspectsFirst(a, b) ==
    LET hasA == IF Len(a.Aspects) > 0 THEN 1 ELSE 0
        hasB == IF Len(b.Aspects) > 0 THEN 1 ELSE 0
    IN hasB - hasA < 0 \/ (hasB - hasA = 0 /\ a.Number - b.Number < 0)

byNumberAsc(a, b) == a.Number - b.Number < 0

\* 1) unique by Number: the first record of each Number in the sorted list,
\*    then ascending by Number
uniqueByNumber(cards) ==
    LET sorted == StableSort(cards, aspectsFirst)
        first  == SelectSeq([i \in DOMAIN sorted |-> [i |-> i, c |-> sorted[i]]],
                            LAMBDA e : \A j \in 1..(e.i - 1) : sorted[j].Number # e.c.Number)
    IN StableSort([i \in DOMAIN first |-> first[i].c], byNumberAsc)

\* 2) baseOnly: per keyNameType keep the LOWEST Number (the first one on a tie)
RECURSIVE baseFold(_, _)
baseFold(cards, byKey) ==
    IF cards = <<>> THEN byKey
    ELSE LET c == Head(cards)
             k == keyNameType(c)
         IN IF k \notin DOMAIN byKey \/ c.Number < byKey[k].Number
            THEN baseFold(Tail(cards), [x \in DOMAIN byKey \cup {k} |->
                                            IF x = k THEN c ELSE byKey[x]])
            ELSE baseFold(Tail(cards), byKey)

baseOnly(cards) ==
    LET byKey == baseFold(cards, <<>>)
        keys  == InsertionOrder([i \in DOMAIN cards |-> keyNameType(cards[i])])
    IN StableSort([i \in DOMAIN keys |-> byKey[keys[i]]], byNumberAsc)

\* 3) buildAltMaps: name+type -> sorted numbers; base = the lowest; every other
\*    number of the group is an alt of it
numsOfKey(allCards, k) ==
    LET cs == SelectSeq(allCards, LAMBDA c : keyNameType(c) = k)
    IN StableSort([i \in DOMAIN cs |-> cs[i].Number], LAMBDA a, b : a - b < 0)

\* alt maps in which the base number of a group is entered as an alt of itself
buildAltMaps_SelfAlt(allCards) ==
    LET keys   == {keyNameType(allCards[i]) : i \in DOMAIN allCards}
        bases  == {numsOfKey(allCards, k)[1] : k \in keys}
        keyOf(b) == CHOOSE k \in keys : numsOfKey(allCards, k)[1] = b
        nums   == {allCards[i].Number : i \in DOMAIN allCards}
    IN [baseToAll |-> [b \in bases |-> numsOfKey(allCards, keyOf(b))],
        altToBase |-> [n \in nums |->
                          numsOfKey(allCards,
                                    CHOOSE k \in keys : n \in Range(numsOfKey(allCards, k)))[1]]]

buildAltMaps(allCards) ==
    LET keys   == {keyNameType(allCards[i]) : i \in DOMAIN allCards}
        bases  == {numsOfKey(allCards, k)[1] : k \in keys}
        keyOf(b) == CHOOSE k \in keys : numsOfKey(allCards, k)[1] = b
        alts   == {n \in {allCards[i].Number : i \in DOMAIN allCards} :
                      \E k \in keys : n \in Range(numsOfKey(allCards, k))
                                      /\ n # numsOfKey(allCards, k)[1]}
    IN [baseToAll |-> [b \in bases |-> numsOfKey(allCards, keyOf(b))],
        altToBase |-> [n \in alts |->
                          numsOfKey(allCards,
                                    CHOOSE k \in keys : n \in Range(numsOfKey(allCards, k)))[1]]]

\* the ParsedSet that parseAndCache builds from a set file and stores in the cache
parseSet(key, data) ==
    LET allCards  == uniqueByNumber(mapped(data, key))
        baseCards == baseOnly(allCards)
        maps      == buildAltMaps(allCards)
    IN [key       |-> key,
        allCards  |-> allCards,
        baseCards |-> baseCards,
        byNumber  |-> [n \in {baseCards[i].Number : i \in DOMAIN baseCards} |->
                          baseCards[CHOOSE i \in DOMAIN baseCards : baseCards[i].Number = n]],
        baseToAll |-> maps.baseToAll,
        altToBase |-> maps.altToBase]

ParsedSOR == parseSet(SOR, RawSOR)
ParsedSHD == parseSet(SHD, RawSHD)
ParsedLOF == parseSet(LOF, RawLOF)

\* the ParsedSet built from the file of set `key`
Parsed(key) ==
    IF key = SOR THEN ParsedSOR ELSE IF key = SHD THEN ParsedSHD ELSE ParsedLOF

-----------------------------------------------------------------------------
(* Search resolver: the suggestions memo *)

\* norm for search: s.toLowerCase().replace(/[^a-z0-9]/g, '')
norm(s) ==
    SelectSeq(toLowerCase(s),
              LAMBDA c : c \in Range(LowerLetters) \/ c \in Range(Digits))

\* collation rank of a character, case folded: blanks, punctuation, digits, letters
CharRank(c) ==
    LET l == LowerChar(c)
    IN IF l \in Range(LowerLetters)
       THEN 20 + (CHOOSE i \in DOMAIN LowerLetters : LowerLetters[i] = l)
       ELSE IF IsDigit(l) THEN 10 + DigitVal(l)
       ELSE IF IsSpace(l) THEN 0
       ELSE IF l = "-" THEN 1
       ELSE 2

\* a.localeCompare(b): -1, 0 or 1; letters compare case-blind first, and on a
\* case-blind tie the lowercase letter sorts first
RECURSIVE compareBy(_, _, _)
compareBy(a, b, caseBlind) ==
    IF a = <<>> /\ b = <<>> THEN 0
    ELSE IF a = <<>> THEN -1
    ELSE IF b = <<>> THEN 1
    ELSE LET ra == IF caseBlind THEN CharRank(Head(a))
                   ELSE IF Head(a) \in Range(UpperLetters) THEN 1 ELSE 0
             rb == IF caseBlind THEN CharRank(Head(b))
                   ELSE IF Head(b) \in Range(UpperLetters) THEN 1 ELSE 0
         IN IF ra < rb THEN -1
            ELSE IF ra > rb THEN 1
            ELSE compareBy(Tail(a), Tail(b), caseBlind)

localeCompare(a, b) ==
    IF compareBy(a, b, TRUE) # 0 THEN compareBy(a, b, TRUE) ELSE compareBy(a, b, FALSE)

SuggestionLimit == 10

Suggestion(kind, card, key) ==
    [kind |-> kind, name |-> card.Name, number |-> card.Number, type |-> card.Type,
     setKey |-> key, subtitle |-> card.Subtitle]

\* 1. number matches: per cached set (Map order), an exact base number or an
\*    alt-art number resolved to its base; the active set's match goes in front
RECURSIVE numberMatchesOver(_, _, _, _, _)
numberMatchesOver(keys, qNum, activeKey, uniqueNumMatches, acc) ==
    IF keys = <<>> THEN acc
    ELSE LET parsed == Head(keys)
             key    == parsed.key
             targetBaseNum ==
                 IF qNum \in DOMAIN parsed.byNumber THEN qNum
                 ELSE IF qNum \in DOMAIN parsed.altToBase THEN parsed.altToBase[qNum]
                 ELSE 0
         IN IF targetBaseNum > 0
               /\ <<key, parsed.byNumber[targetBaseNum].Number>> \notin uniqueNumMatches
            THEN LET baseCard == parsed.byNumber[targetBaseNum]
                     sug == Suggestion("number", baseCard, key)
                 IN numberMatchesOver(Tail(keys), qNum, activeKey,
                        uniqueNumMatches \cup {<<key, baseCard.Number>>},
                        IF key = activeKey THEN <<sug>> \o acc ELSE Append(acc, sug))
            ELSE numberMatchesOver(Tail(keys), qNum, activeKey, uniqueNumMatches, acc)

numberMatches(raw, activeKey, cache) ==
    LET qnorm == IF stripLeadingZeros(raw) = <<>> THEN <<"0">> ELSE stripLeadingZeros(raw)
    IN IF isDigits(raw)
       THEN numberMatchesOver(cache, NumberOfDigits(qnorm), activeKey, {}, <<>>)
       ELSE <<>>

\* the name hits of one set: base cards whose normalized name or subtitle holds
\* the normalized query and whose Number is not among excluded, by earliest
\* match position, then by name
nameHits(parsed, lower, excluded) ==
    LET key  == parsed.key
        base == parsed.baseCards
        all  == [i \in DOMAIN base |->
                    [c |-> base[i],
                     idx |-> indexOf(norm(base[i].Name), lower),
                     subIdx |-> IF base[i].Subtitle # NoString
                                THEN indexOf(norm(base[i].Subtitle), lower) ELSE -1]]
        kept == SelectSeq(all, LAMBDA o : (o.idx >= 0 \/ o.subIdx >= 0)
                                          /\ o.c.Number \notin excluded)
        at(o) == IF o.idx >= 0 THEN o.idx ELSE o.subIdx
        sorted == StableSort(kept, LAMBDA a, b :
                      at(a) - at(b) < 0
                      \/ (at(a) - at(b) = 0 /\ localeCompare(a.c.Name, b.c.Name) < 0))
    IN [i \in DOMAIN sorted |-> Suggestion("name", sorted[i].c, key)]

\* 2. name matches over every cached set; the active set's hits go in front
RECURSIVE nameMatchesOver(_, _, _, _, _)
nameMatchesOver(keys, lower, activeKey, excluded, acc) ==
    IF keys = <<>> THEN acc
    ELSE LET key  == Head(keys).key
             hits == nameHits(Head(keys), lower, excluded)
         IN nameMatchesOver(Tail(keys), lower, activeKey, excluded,
                            IF key = activeKey THEN hits \o acc ELSE acc \o hits)

\* the card numbers the name branch leaves out: those of the number matches
nameMatchBaseNums(numMatches) == {numMatches[i].number : i \in DOMAIN numMatches}

nameMatches(raw, activeKey, cache, numMatches) ==
    nameMatchesOver(cache, norm(raw), activeKey, nameMatchBaseNums(numMatches), <<>>)

\* the merge without the cut to the limit
mergeSuggestions_Uncut(numMatches, nmMatches) == numMatches \o nmMatches

\* 3. merge: number matches first, then name matches, cut to the limit
mergeSuggestions(numMatches, nmMatches) ==
    LET all == numMatches \o nmMatches
    IN SubSeq(all, 1, Min(SuggestionLimit, Len(all)))

computeSuggestions(q, activeKey, cache) ==
    LET raw == trim(q)
    IN IF raw = <<>> THEN <<>>
       ELSE LET nums == numberMatches(raw, activeKey, cache)
            IN mergeSuggestions(nums, nameMatches(raw, activeKey, cache, nums))

-----------------------------------------------------------------------------
(* The displayed catalog: the state the load effect fills from the cache *)

\* before the first load completes the four card states are empty
NothingShown ==
    [key |-> NoSet, allCards |-> <<>>, baseCards |-> <<>>, byNumber |-> <<>>,
     baseToAll |-> <<>>, altToBase |-> <<>>]

cardsAll  == shown.allCards
cardsBase == shown.baseCards
baseToAll == shown.baseToAll
altToBase == shown.altToBase

\* byNumber memo: Map(cardsBase.map(c => [c.Number, c]))
byNumber ==
    [n \in {cardsBase[i].Number : i \in DOMAIN cardsBase} |->
        cardsBase[CHOOSE i \in DOMAIN cardsBase :
                    cardsBase[i].Number = n
                    /\ \A j \in DOMAIN cardsBase : cardsBase[j].Number = n => j <= i]]

-----------------------------------------------------------------------------
(* Inventory ledger *)

EmptyInv == <<>>

\* inv[n] || 0
Qty(inv, n) == IF n \in DOMAIN inv THEN inv[n] ELSE 0

\* { ...inv, [n]: q }
Put(inv, n, q) == [k \in DOMAIN inv \cup {n} |-> IF k = n THEN q ELSE inv[k]]

\* a removal that leaves the key with quantity 0
Drop_WritesZero(inv, n) == Put(inv, n, 0)

\* const { [n]: _removed, ...rest } = inv / delete inv[n]
Drop(inv, n) == [k \in DOMAIN inv \ {n} |-> inv[k]]

pruneZeros(inv) == [k \in {x \in DOMAIN inv : inv[x] > 0} |-> inv[k]]

\* String(n) for an integer
StringOfInt(n) == IF n < 0 THEN <<"-">> \o StringOfNat(0 - n) ELSE StringOfNat(n)

SortedSeqOfSet(S) ==
    [i \in 1..Cardinality(S) |-> CHOOSE x \in S : Cardinality({y \in S : y < x}) = i - 1]

\* JSON.stringify(inv): the entries of the object, keys as strings, integer keys
\* in ascending order
stringifyInv(inv) ==
    LET ks == SortedSeqOfSet(DOMAIN inv)
    IN [i \in DOMAIN ks |-> <<StringOfInt(ks[i]), inv[ks[i]]>>]

\* JSON.parse(raw) read as an Inventory: property n is the entry whose key is String(n)
parseInv(json) ==
    [n \in {NumberOf(json[i][1]).val : i \in DOMAIN json} |->
        json[CHOOSE i \in DOMAIN json : NumberOf(json[i][1]).val = n][2]]

\* readSetInv: an absent or unparsable item reads as {}
readSetInv(st, k) == parseInv(st[k])

writeSetInv(st, k, inv) == [st EXCEPT ![k] = stringifyInv(inv)]

\* the Type read by inc: byNumber.get(n) || cardsAll.find(x => x.Number === n)
incType(n) ==
    IF n \in DOMAIN byNumber THEN byNumber[n].Type
    ELSE IF \E i \in DOMAIN cardsAll : cardsAll[i].Number = n
         THEN cardsAll[CHOOSE i \in DOMAIN cardsAll :
                         cardsAll[i].Number = n
                         /\ \A j \in DOMAIN cardsAll : cardsAll[j].Number = n => i <= j].Type
         ELSE NoString

inc(inv, n) == Put(inv, n, Min(Qty(inv, n) + 1, quotaForType(incType(n))))

\* dec without the removal of the key: the entry stays, with quantity 0
dec_KeepsZeroEntry(inv, n) == Put(inv, n, Max(Qty(inv, n) - 1, 0))

dec(inv, n) ==
    LET next == Max(Qty(inv, n) - 1, 0)
    IN IF next = 0 THEN Drop(inv, n) ELSE Put(inv, n, next)

CORE_RARITIES == {Common, Uncommon, Rare, Legendary}

\* targets of the bulk modal: every card, core rarities (one that no card of
\* the catalogs has), the Special rarity, and card types
All == <<"a","l","l">>
BulkTargets == {All, Uncommon, Legendary, Special, BaseT, Unit}
BulkActions == {"add", "add_max", "remove", "remove_all"}

processCard(card, target) ==
    IF target = All THEN TRUE
    ELSE IF target \in CORE_RARITIES THEN card.Rarity = target
    ELSE IF target = Special THEN card.Rarity = Special
    ELSE card.Type = target

\* a bulk step whose add is not capped at the quota
bulkOne_Uncapped(nextInv, card, action, qty) ==
    LET max        == quotaForType(card.Type)
        currentQty == Qty(nextInv, card.Number)
    IN IF action = "add" \/ action = "add_max"
       THEN Put(nextInv, card.Number, currentQty + (IF action = "add" THEN qty ELSE max))
       ELSE IF action = "remove"
       THEN (IF Max(currentQty - qty, 0) = 0
             THEN Drop(nextInv, card.Number)
             ELSE Put(nextInv, card.Number, Max(currentQty - qty, 0)))
       ELSE Drop(nextInv, card.Number)

bulkOne(nextInv, card, action, qty) ==
    LET max        == quotaForType(card.Type)
        currentQty == Qty(nextInv, card.Number)
    IN IF action = "add" \/ action = "add_max"
       THEN Put(nextInv, card.Number,
                Min(currentQty + (IF action = "add" THEN qty ELSE max), max))
       ELSE IF action = "remove"
       THEN (IF Max(currentQty - qty, 0) = 0
             THEN Drop(nextInv, card.Number)
             ELSE Put(nextInv, card.Number, Max(currentQty - qty, 0)))
       ELSE Drop(nextInv, card.Number)

RECURSIVE bulkFold(_, _, _, _, _)
bulkFold(cards, nextInv, action, target, qty) ==
    IF cards = <<>> THEN nextInv
    ELSE bulkFold(Tail(cards),
                  IF processCard(Head(cards), target)
                  THEN bulkOne(nextInv, Head(cards), action, qty) ELSE nextInv,
                  action, target, qty)

performBulkAction(inv, action, target, qty) ==
    pruneZeros(bulkFold(cardsBase, inv, action, target, qty))

-----------------------------------------------------------------------------
(* Import: file parsing (parseCsvData, parseXlsxData) and applyImport *)

\* a chosen file: a CSV or XLSX table (header row and data rows of cells), or a
\* JSON document (its version and the entries of its "sets" object)
CsvFile(headers, rows)  == [kind |-> "csv",  headers |-> headers, rows |-> rows,
                            version |-> 0, sets |-> <<>>]
XlsxFile(headers, rows) == [kind |-> "xlsx", headers |-> headers, rows |-> rows,
                            version |-> 0, sets |-> <<>>]
JsonFile(version, jsonSets) == [kind |-> "json", headers |-> <<>>, rows |-> <<>>,
                                version |-> version, sets |-> jsonSets]

\* header normalization: s.toLowerCase().replace(/[\s_]+/g, '')
headerNorm(s) == SelectSeq(toLowerCase(s), LAMBDA c : ~IsSpace(c) /\ c # "_")

detectImportFormat(headers) ==
    LET h == {headerNorm(headers[i]) : i \in DOMAIN headers}
    IN IF headerNorm(<<"S","e","t">>) \in h /\ headerNorm(<<"C","a","r","d","N","u","m","b","e","r">>) \in h
          /\ headerNorm(<<"C","o","u","n","t">>) \in h
       THEN "swudb"
       ELSE IF headerNorm(<<"S","e","t">>) \in h
               /\ (headerNorm(<<"B","a","s","e"," ","c","a","r","d"," ","i","d">>) \in h \/ headerNorm(<<"B","a","s","e","C","a","r","d","I","d">>) \in h)
               /\ headerNorm(<<"N","o","r","m","a","l">>) \in h
       THEN "swunlimiteddb"
       ELSE "unknown"

\* findColAny(name): the first column whose normalized header is the name; 0 if none
findCol(headers, name) ==
    LET hit == {i \in DOMAIN headers : headerNorm(headers[i]) = headerNorm(name)}
    IN IF hit = {} THEN 0 ELSE CHOOSE i \in hit : \A j \in hit : i <= j

\* row[col] ?? ""
Cell(row, col) == IF col \in DOMAIN row THEN row[col] ELSE NoString

\* "<SET>:<number>", the key of fullCardIndex
indexKey(set, numStr) == set \o <<":">> \o numStr

RECURSIVE flatCards(_)
flatCards(keys) ==
    IF keys = <<>> THEN <<>> ELSE Head(keys).allCards \o flatCards(Tail(keys))

\* handleFileChange's lookup map over every cached set's allCards
fullCardIndex(cache) ==
    LET cards == flatCards(cache)
    IN [k \in {indexKey(cards[i].Set, StringOfInt(cards[i].Number)) : i \in DOMAIN cards} |->
          LET i == CHOOSE i \in DOMAIN cards :
                      indexKey(cards[i].Set, StringOfInt(cards[i].Number)) = k
                      /\ \A j \in DOMAIN cards :
                           indexKey(cards[j].Set, StringOfInt(cards[j].Number)) = k => j <= i
          IN [baseNumber |-> cards[i].Number, type |-> cards[i].Type]]

\* aggregatedData[setKey][baseNumber] = Math.min(current + count, max)
addCapped(agg, key, baseNumber, count, max) ==
    LET inv == IF key \in DOMAIN agg THEN agg[key] ELSE EmptyInv
    IN [k \in DOMAIN agg \cup {key} |->
          IF k = key THEN Put(inv, baseNumber, Min(Qty(inv, baseNumber) + count, max))
          ELSE agg[k]]

\* Number(cell), with NaN counted as not finite
finiteOr0(cell) == IF NumberOf(cell).nan THEN 0 ELSE NumberOf(cell).val

RECURSIVE sumCells(_, _)
sumCells(row, from) ==
    IF from > Len(row) THEN 0 ELSE finiteOr0(row[from]) + sumCells(row, from + 1)

\* sw-unlimited-db rows: the count is the sum of the cells from "Normal" to the end
RECURSIVE parseUnlimitedRows(_, _, _, _, _, _)
parseUnlimitedRows(rows, setCol, idCol, normalCol, index, agg) ==
    IF rows = <<>> THEN agg
    ELSE LET row        == Head(rows)
             key        == toUpperCase(trim(Cell(row, setCol)))
             baseId     == NumberOf(Cell(row, idCol))
             totalCount == sumCells(row, normalCol)
             skip       == key = NoString \/ baseId.nan \/ baseId.val <= 0
                           \/ totalCount <= 0
                           \/ indexKey(key, StringOfInt(baseId.val)) \notin DOMAIN index
         IN parseUnlimitedRows(Tail(rows), setCol, idCol, normalCol, index,
                IF skip THEN agg
                ELSE LET info == index[indexKey(key, StringOfInt(baseId.val))]
                     IN addCapped(agg, key, info.baseNumber, totalCount,
                                  quotaForType(info.type)))

\* swudb rows: Set, CardNumber, Count
RECURSIVE parseSwudbRows(_, _, _, _, _, _)
parseSwudbRows(rows, setCol, numCol, countCol, index, agg) ==
    IF rows = <<>> THEN agg
    ELSE LET row        == Head(rows)
             key        == toUpperCase(trim(Cell(row, setCol)))
             cardNumRaw == trim(Cell(row, numCol))
             count      == finiteOr0(Cell(row, countCol))
             numericId  == NumberOf(cardNumRaw)
             skip       == key = NoString \/ cardNumRaw = NoString \/ count <= 0
                           \/ numericId.nan \/ numericId.val <= 0
                           \/ indexKey(key, StringOfInt(numericId.val)) \notin DOMAIN index
         IN parseSwudbRows(Tail(rows), setCol, numCol, countCol, index,
                IF skip THEN agg
                ELSE LET info == index[indexKey(key, StringOfInt(numericId.val))]
                     IN addCapped(agg, key, info.baseNumber, count,
                                  quotaForType(info.type)))

\* the entries of one set of a version-1 JSON snapshot
RECURSIVE parseJsonEntries(_, _, _, _)
parseJsonEntries(entries, key, index, inv) ==
    IF entries = <<>> THEN inv
    ELSE LET numStr     == Head(entries)[1]
             count      == Head(entries)[2]
             baseNumber == NumberOf(numStr)
             max        == IF indexKey(key, numStr) \in DOMAIN index
                           THEN quotaForType(index[indexKey(key, numStr)].type) ELSE 3
         IN parseJsonEntries(Tail(entries), key, index,
                IF baseNumber.nan THEN inv
                ELSE Put(inv, baseNumber.val, Min(count, max)))

RECURSIVE parseJsonSets(_, _, _)
parseJsonSets(jsonSets, index, agg) ==
    IF jsonSets = <<>> THEN agg
    ELSE LET key == Head(jsonSets)[1]
             inv == IF key \in DOMAIN agg THEN agg[key] ELSE EmptyInv
             got == parseJsonEntries(Head(jsonSets)[2], key, index, inv)
         IN parseJsonSets(Tail(jsonSets), index,
                [k \in DOMAIN agg \cup {key} |-> IF k = key THEN got ELSE agg[k]])

\* what a parser hands back: the aggregated data, or the message of the Error
\* it throws
Parsed_ok(data)       == [ok |-> TRUE,  data |-> data, message |-> ""]
Parsed_throw(message) == [ok |-> FALSE, data |-> <<>>, message |-> message]

NotRecognized ==
    "File format not recognized. Expected a SWUDB or SW-Unlimited CSV (or a valid app JSON export)."
InvalidXlsx == "Invalid XLSX format (need Set, Base card id, Normal)."

\* parseCsvData: the format is detected from the header row; a file that is in
\* neither CSV format is tried as the app's JSON export, and else rejected
parseCsvData(file, index) ==
    LET format == IF file.kind = "csv" THEN detectImportFormat(file.headers) ELSE "unknown"
    IN IF format = "swunlimiteddb"
       THEN Parsed_ok(parseUnlimitedRows(file.rows,
                findCol(file.headers, <<"S","e","t">>),
                IF findCol(file.headers, <<"B","a","s","e"," ","c","a","r","d"," ","i","d">>) # 0
                THEN findCol(file.headers, <<"B","a","s","e"," ","c","a","r","d"," ","i","d">>)
                ELSE findCol(file.headers, <<"B","a","s","e","C","a","r","d","I","d">>),
                findCol(file.headers, <<"N","o","r","m","a","l">>), index, <<>>))
       ELSE IF format = "swudb"
       THEN Parsed_ok(parseSwudbRows(file.rows,
                findCol(file.headers, <<"S","e","t">>), findCol(file.headers, <<"C","a","r","d","N","u","m","b","e","r">>),
                findCol(file.headers, <<"C","o","u","n","t">>), index, <<>>))
       ELSE IF file.kind = "json" /\ file.version = 1
       THEN Parsed_ok(parseJsonSets(file.sets, index, <<>>))
       ELSE Parsed_throw(NotRecognized)

ALT_HEADERS ==
    << <<"N","o","r","m","a","l">>, <<"F","o","i","l">>, <<"H","y","p","e","r","s","p","a","c","e">>, <<"F","o","i","l"," ","&"," ","H","y","p","e","r","s","p","a","c","e">>, <<"S","h","o","w","c","a","s","e">>,
       <<"O","r","g","a","n","i","z","e","d"," ","P","l","a","y">>, <<"E","v","e","n","t"," ","E","x","c","l","u","s","i","v","e">>, <<"P","r","e","r","e","l","e","a","s","e"," ","P","r","o","m","o">>,
       <<"O","r","g","a","n","i","z","e","d"," ","P","l","a","y"," ","F","o","i","l">>, <<"S","t","a","n","d","a","r","d"," ","P","r","e","s","t","i","g","e">>, <<"F","o","i","l"," ","P","r","e","s","t","i","g","e">>,
       <<"S","e","r","i","a","l","i","z","e","d"," ","P","r","e","s","t","i","g","e">> >>

\* the sum of a row's cells under the known variant headers
RECURSIVE sumAltHeaders(_, _, _)
sumAltHeaders(headers, row, hs) ==
    IF hs = <<>> THEN 0
    ELSE (IF findCol(headers, Head(hs)) # 0
          THEN finiteOr0(Cell(row, findCol(headers, Head(hs)))) ELSE 0)
         + sumAltHeaders(headers, row, Tail(hs))

RECURSIVE parseXlsxRows(_, _, _, _)
parseXlsxRows(headers, rows, index, agg) ==
    IF rows = <<>> THEN agg
    ELSE LET row        == Head(rows)
             key        == toUpperCase(trim(Cell(row, findCol(headers, <<"S","e","t">>))))
             baseId     == NumberOf(Cell(row, findCol(headers, <<"B","a","s","e"," ","c","a","r","d"," ","i","d">>)))
             totalCount == sumAltHeaders(headers, row, ALT_HEADERS)
             skip       == key = NoString \/ baseId.nan \/ baseId.val <= 0
                           \/ totalCount <= 0
                           \/ indexKey(key, StringOfInt(baseId.val)) \notin DOMAIN index
         IN parseXlsxRows(headers, Tail(rows), index,
                IF skip THEN agg
                ELSE LET info == index[indexKey(key, StringOfInt(baseId.val))]
                     IN addCapped(agg, key, info.baseNumber, totalCount,
                                  quotaForType(info.type)))

parseXlsxData(file, index) ==
    IF file.rows = <<>> THEN Parsed_ok(<<>>)
    ELSE IF findCol(file.headers, <<"S","e","t">>) # 0
            /\ findCol(file.headers, <<"B","a","s","e"," ","c","a","r","d"," ","i","d">>) # 0
            /\ findCol(file.headers, <<"N","o","r","m","a","l">>) # 0
    THEN Parsed_ok(parseXlsxRows(file.headers, file.rows, index, <<>>))
    ELSE Parsed_throw(InvalidXlsx)

\* applyImport for one set key of importData: the ledger written for that key
RECURSIVE applyEntries(_, _, _, _, _)
applyEntries(numbers, importedInv, newInv, key, mode) ==
    IF numbers = <<>> THEN newInv
    ELSE LET baseNumber   == Head(numbers)
             newCount     == importedInv[baseNumber]
             currentCount == Qty(newInv, baseNumber)
             hit          == {i \in DOMAIN cardsAll : cardsAll[i].Number = baseNumber
                                                       /\ cardsAll[i].Set = key}
             max          == quotaForType(IF hit = {} THEN NoString
                                          ELSE cardsAll[CHOOSE i \in hit : \A j \in hit : i <= j].Type)
             updatedCount == IF mode = "merge" THEN Min(newCount + currentCount, max)
                             ELSE Min(newCount, max)
         IN applyEntries(Tail(numbers), importedInv,
                IF updatedCount > 0 THEN Put(newInv, baseNumber, updatedCount)
                ELSE Drop(newInv, baseNumber),
                key, mode)

\* an application that starts from the stored ledger and adds to it in either mode
importedLedger_AlwaysMerge(st, key, importedInv, mode) ==
    pruneZeros(applyEntries(SortedSeqOfSet(DOMAIN importedInv), importedInv,
                            readSetInv(st, key), key, "merge"))

importedLedger(st, key, importedInv, mode) ==
    pruneZeros(applyEntries(SortedSeqOfSet(DOMAIN importedInv), importedInv,
                            IF mode = "merge" THEN readSetInv(st, key) ELSE EmptyInv,
                            key, mode))

\* the set keys of importData that applyImport does not skip
appliedKeys(data) == {k \in DOMAIN data : k # NoString /\ DOMAIN data[k] # {}}

-----------------------------------------------------------------------------
(* Import files offered to the file picker *)

\* a swudb.com export: a padded number, a lower-case set key, an alt printing's
\* number, a number the catalog lacks, a set that is not cached, a blank number
\* and a count that is not a number
FileA ==
    CsvFile(<< <<"S","e","t">>, <<"C","a","r","d","N","u","m","b","e","r">>, <<"C","o","u","n","t">> >>,
            << << <<"s","o","r">>, <<"0","0","3">>, <<"2">> >>,
               << <<"S","O","R">>, <<"5">>, <<"1">> >>,
               << <<"L","O","F">>, <<"3">>, <<"1">> >>,
               << <<"S","O","R">>, <<"7","7">>, <<"1">> >>,
               << <<"S","H","D">>, <<"1">>, <<"1">> >>,
               << <<"L","O","F">>, <<>>, <<"2">> >>,
               << <<"L","O","F">>, <<"1">>, <<"x">> >> >>)

\* a sw-unlimited-db export as CSV: the variant columns from Normal on are summed
FileB ==
    CsvFile(<< <<"S","e","t">>, <<"B","a","s","e"," ","c","a","r","d"," ","i","d">>, <<"N","a","m","e">>, <<"N","o","r","m","a","l">>, <<"F","o","i","l">> >>,
            << << <<"L","O","F">>, <<"3">>, <<"H","a","n","g","a","r"," ","5">>, <<"1">>, <<"1">> >>,
               << <<"L","O","F">>, <<"0">>, <<"N","o","n","e">>, <<"1">>, <<"0">> >> >>)

\* a sw-unlimited-db export as XLSX: only the known variant columns are summed
FileXlsx ==
    XlsxFile(<< <<"S","e","t">>, <<"B","a","s","e"," ","c","a","r","d"," ","i","d">>, <<"N","o","r","m","a","l">>, <<"F","o","i","l">>, <<"E","x","t","r","a">> >>,
             << << <<"S","O","R">>, <<"3">>, <<"1">>, <<"1">>, <<"4">> >>,
                << <<"S","O","R">>, <<"5">>, <<"0">>, <<"0">>, <<"2">> >> >>)

\* a version-1 JSON snapshot: a number the catalog lacks, a count of 0 and a set
\* with no entries
FileJ ==
    JsonFile(1, << << SOR, << << <<"9">>, 3 >>, << <<"3">>, 0 >> >> >>,
                   << LOF, << >> >> >>)

\* files that are in no known format
FileU  == CsvFile(<< <<"C","a","r","d">>, <<"Q","t","y">> >>, << << <<"1">>, <<"1">> >> >>)
FileJ2 == JsonFile(2, << << LOF, << << <<"1">>, 1 >> >> >> >>)

\* a spreadsheet whose header row names no known column and that has no data row
FileXlsxBare == XlsxFile(<< <<"C","a","r","d">>, <<"Q","t","y">> >>, << >>)

ImportFiles == {FileA, FileB, FileXlsx, FileJ, FileU, FileJ2}

\* the files that are in no recognized format: neither the swudb nor the
\* sw-unlimited-db headers, and not a version-1 snapshot
UnrecognizedFiles == {FileU, FileJ2, FileXlsxBare}

\* setError(`Import failed: ${e.message}`)
ImportFailed(message) ==
    IF message = NotRecognized
    THEN "Import failed: File format not recognized. Expected a SWUDB or SW-Unlimited CSV (or a valid app JSON export)."
    ELSE "Import failed: Invalid XLSX format (need Set, Base card id, Normal)."
LoadFailed   == "Failed to load set data."

-----------------------------------------------------------------------------
(* The ledger application: every set of the manifest is loaded and cached *)

EmptyStore == [k \in AllSetKeys |-> <<>>]

\* useState({ aspect: [], rarity: [], type: [] }) and useState(null)
NoFilters == [aspect |-> <<>>, rarity |-> <<>>, type |-> <<>>]
NoActive  == [none |-> TRUE]
NoPending == [none |-> TRUE]

InitApp(manifest, activeKey) ==
    /\ sets = manifest
    /\ setKey = activeKey
    /\ parsedCache = LET order == <<activeKey>> \o SelectSeq(manifest, LAMBDA k : k # activeKey)
                     IN [i \in DOMAIN order |-> Parsed(order[i])]
    /\ shown = Parsed(activeKey)
    /\ inventory = EmptyInv
    /\ store = EmptyStore
    /\ importData = <<>>
    /\ showImportModal = FALSE
    /\ error = ""
    /\ loads = {}
    /\ fetches = {}
    /\ query = NoString
    /\ suggestions = <<>>
    /\ snapshot = <<>>
    /\ filters = NoFilters
    /\ active = NoActive
    /\ viewSpread = 0
    /\ pendingSelection = NoPending

Init == InitApp(<<SOR, LOF>>, LOF)

\* the numbers the + and - controls can carry: the printings of the displayed set
IncTargets == {cardsAll[i].Number : i \in DOMAIN cardsAll}

\* the persist effect runs after every change of the inventory state
Persist == store' = writeSetInv(store, setKey, inventory')

Inc ==
    \E n \in IncTargets :
        /\ inventory' = inc(inventory, n)
        /\ Persist
        /\ UNCHANGED <<sets, setKey, parsedCache, shown, importData, showImportModal,
                       error, loads, fetches, query, suggestions, snapshot, filters, active, viewSpread, pendingSelection>>

Dec ==
    \E n \in IncTargets :
        /\ inventory' = dec(inventory, n)
        /\ Persist
        /\ UNCHANGED <<sets, setKey, parsedCache, shown, importData, showImportModal,
                       error, loads, fetches, query, suggestions, snapshot, filters, active, viewSpread, pendingSelection>>

BulkAction ==
    \E action \in BulkActions, target \in BulkTargets :
        /\ inventory' = performBulkAction(inventory, action, target, 1)
        /\ Persist
        /\ UNCHANGED <<sets, setKey, parsedCache, shown, importData, showImportModal,
                       error, loads, fetches, query, suggestions, snapshot, filters, active, viewSpread, pendingSelection>>

\* handleResetInventory: the stored item of the active set, or of every set of
\* the manifest, is removed and the inventory state emptied
ResetInventory ==
    \E scope \in {"current", "all"} :
        /\ inventory' = EmptyInv
        /\ store' = [k \in AllSetKeys |->
                       IF k = setKey \/ (scope = "all" /\ k \in Range(sets))
                       THEN <<>> ELSE store[k]]
        /\ UNCHANGED <<sets, setKey, parsedCache, shown, importData, showImportModal,
                       error, loads, fetches, query, suggestions, snapshot, filters, active, viewSpread, pendingSelection>>

\* handleFileChange: the chosen file is parsed against the cached catalogs; a
\* parsed file opens the import modal, a rejected one sets the error
parseFile(file, cache) ==
    IF file.kind = "xlsx" THEN parseXlsxData(file, fullCardIndex(cache))
    ELSE parseCsvData(file, fullCardIndex(cache))

handleFileChange(file) ==
    /\ ~showImportModal
    /\ LET parsedInventory == parseFile(file, parsedCache)
       IN IF parsedInventory.ok
          THEN /\ importData' = parsedInventory.data
               /\ showImportModal' = TRUE
               /\ error' = ""
          ELSE /\ error' = ImportFailed(parsedInventory.message)
               /\ UNCHANGED <<importData, showImportModal>>
    /\ UNCHANGED <<sets, setKey, parsedCache, shown, inventory, store,
                   loads, fetches, query, suggestions, snapshot, filters, active, viewSpread, pendingSelection>>

HandleFileChange == \E file \in ImportFiles : handleFileChange(file)

\* the file picker is given a file in no recognized format
ChooseUnrecognized == \E file \in UnrecognizedFiles : handleFileChange(file)

\* closing the import modal keeps the parsed data
CancelImport ==
    /\ showImportModal
    /\ showImportModal' = FALSE
    /\ UNCHANGED <<sets, setKey, parsedCache, shown, inventory, store, importData,
                   error, loads, fetches, query, suggestions, snapshot, filters, active, viewSpread, pendingSelection>>

\* applyImport(mode): every set of importData with entries is rewritten in
\* its stored item, and in the inventory state if it is the active set
ApplyImport(mode) ==
    /\ showImportModal
    /\ inventory' = IF setKey \in appliedKeys(importData)
                    THEN importedLedger(store, setKey, importData[setKey], mode)
                    ELSE inventory
    /\ store' = [k \in AllSetKeys |->
                   IF k = setKey THEN stringifyInv(inventory')
                   ELSE IF k \in appliedKeys(importData)
                   THEN stringifyInv(importedLedger(store, k, importData[k], mode))
                   ELSE store[k]]
    /\ showImportModal' = FALSE
    /\ importData' = <<>>
    /\ UNCHANGED <<sets, setKey, parsedCache, shown, error, loads, fetches,
                   query, suggestions, snapshot, filters, active, viewSpread, pendingSelection>>

-----------------------------------------------------------------------------
(* Card normalizer as a service: the load effect, parseAndCache and its fetches *)

MaxLoads == 2      \* load() invocations that may be suspended at the same time

isCached(cache, key) == \E i \in DOMAIN cache : cache[i].key = key

cacheGet(cache, key) == cache[CHOOSE i \in DOMAIN cache : cache[i].key = key]

\* parsedCacheRef.current.set(key, parsed): a present key keeps its place
cacheSet(cache, parsed) ==
    IF isCached(cache, parsed.key)
    THEN [i \in DOMAIN cache |-> IF cache[i].key = parsed.key THEN parsed ELSE cache[i]]
    ELSE Append(cache, parsed)

\* ids of load() invocations that still have a continuation or a fetch pending
usedIds == {l.id : l \in loads} \cup {f.id : f \in fetches}
freeIds == (1..MaxLoads) \ usedIds
newId   == CHOOSE i \in freeIds : \A j \in freeIds : i <= j

\* a step 2 that fetches every other set again, cached or not
othersToFetch_All(cache, snap, key) == {k \in Range(snap) : k # key}

\* step 2 of load(): parseAndCache for every other set of the manifest; each
\* uncached one starts its own fetch, whatever is already in flight
othersToFetch(cache, snap, key) ==
    {k \in Range(snap) : k # key /\ ~isCached(cache, k)}

\* load() from its start, for set key `key` under manifest `snap`, run up to
\* its first await that has to wait for a fetch; `cache` is the cache it sees
load(key, snap, id, cache) ==
    IF key \notin Range(snap)
    THEN [done |-> FALSE, loads |-> {}, fetches |-> {}]             \* if (!meta) return
    ELSE IF ~isCached(cache, key)
    THEN [done |-> FALSE,
          loads |-> {[id |-> id, key |-> key, sets |-> snap, pc |-> "current",
                      waiting |-> {key}]},
          fetches |-> {[id |-> id, key |-> key]}]
    ELSE IF othersToFetch(cache, snap, key) # {}
    THEN [done |-> FALSE,
          loads |-> {[id |-> id, key |-> key, sets |-> snap, pc |-> "others",
                      waiting |-> othersToFetch(cache, snap, key)]},
          fetches |-> {[id |-> id, key |-> k] : k \in othersToFetch(cache, snap, key)}]
    ELSE [done |-> TRUE, loads |-> {}, fetches |-> {}]

\* the active state for a card placed at the binder slot of number n
activeAt(card, n) ==
    LET slot   == binderLayout(n)
        coords == getSpreadCoords(slot.page, slot.row, slot.column)
    IN [none |-> FALSE, card |-> card, page |-> slot.page, row |-> slot.row,
        column |-> slot.column, spreadCol |-> coords.spreadCol,
        spreadRow |-> coords.spreadRow]

\* setError(`Failed to find card #${pendingSelection.number} in set ${setKey}.`);
\* the message is kept per set key, the number is left out of it
FailedToFind(key) ==
    IF key = SOR THEN "Failed to find card in set SOR."
    ELSE IF key = SHD THEN "Failed to find card in set SHD."
    ELSE "Failed to find card in set LOF."

\* the deferred navigation hook, run in a commit where the pending selection is
\* pend, cardsBase is base and the active key is key: with a pending selection
\* and cards on display it looks the card up by number and name
navigationHook(pend, base, key) ==
    IF pend = NoPending \/ base = <<>>
    THEN [ran |-> FALSE, found |-> FALSE]
    ELSE LET hit == {i \in DOMAIN base : base[i].Number = pend.number
                                         /\ base[i].Name = pend.name}
         IN IF hit = {}
            THEN [ran |-> TRUE, found |-> FALSE, error |-> FailedToFind(key)]
            ELSE LET card == base[CHOOSE i \in hit : \A j \in hit : i <= j]
                 IN [ran |-> TRUE, found |-> TRUE, error |-> "",
                     active |-> activeAt(card, card.Number),
                     viewSpread |-> pageToSpread(binderLayout(card.Number).page)]

\* the hook across a change of setKey: it runs in the commit of the change, on
\* the cards still displayed, and again when the load has set other cards
deferredNavigation(pend, oldBase, newBase, key) ==
    LET one == navigationHook(pend, oldBase, key)
        two == IF one.ran \/ newBase = oldBase THEN [ran |-> FALSE, found |-> FALSE]
               ELSE navigationHook(pend, newBase, key)
    IN IF two.ran THEN two ELSE one

\* the load effect and the deferred navigation hook, run on a change of setKey
\* or sets; pend is the pending selection the handler has set
RunLoadEffect(key, snap, pend) ==
    LET r   == load(key, snap, newId, parsedCache)
        new == IF r.done THEN cacheGet(parsedCache, key) ELSE shown
        nav == deferredNavigation(pend, cardsBase, new.baseCards, key)
    IN /\ freeIds # {}
       /\ loads' = loads \cup r.loads
       /\ fetches' = fetches \cup r.fetches
       /\ shown' = new
       /\ pendingSelection' = IF nav.ran THEN NoPending ELSE pend
       /\ error' = IF nav.ran THEN nav.error ELSE ""
       /\ active' = IF nav.found THEN nav.active ELSE NoActive
       /\ viewSpread' = IF nav.found THEN nav.viewSpread ELSE 0

\* a switch whose persist effect runs once only, with the old inventory
settledStore_NoRewrite(st, k, oldInv, newInv) == writeSetInv(st, k, oldInv)

\* the persist effect across a change of setKey: in the commit of the switch it
\* writes the inventory state it still sees, the old one, under the new key; the
\* render that follows setInventory runs it again with the new inventory
settledStore(st, k, oldInv, newInv) ==
    writeSetInv(writeSetInv(st, k, oldInv), k, newInv)

\* the inventory effect and the persist effect, run on a change of setKey: the
\* inventory effect reads the new key's item before the persist effect writes
SwitchInventory(k) ==
    /\ inventory' = parseInv(store[k])
    /\ store' = settledStore(store, k, inventory, inventory')

\* the set <select>: the inventory effect reads the new set's stored item, the
\* persist effect rewrites it, the query is cleared and the load effect runs
SelectSet ==
    \E k \in Range(sets) :
        /\ k # setKey
        /\ setKey' = k
        /\ SwitchInventory(k)
        /\ query' = NoString
        /\ suggestions' = <<>>
        /\ RunLoadEffect(k, sets, pendingSelection)
        /\ UNCHANGED <<sets, parsedCache, importData, showImportModal, snapshot, filters>>

\* the manifests /sets/manifest.json may hold
Manifests == { <<SOR, LOF>>, <<SOR, SHD>>, <<LOF, SOR, SHD>> }

\* the manifest arrives: setSets(list), and setSetKey(list[0].key) when the
\* active key is not in the list; the effects of the changed states run
ManifestLoaded ==
    \E list \in Manifests :
        /\ sets = <<>>
        /\ sets' = list
        /\ setKey' = IF setKey \in Range(list) THEN setKey ELSE list[1]
        /\ IF setKey' # setKey
           THEN /\ SwitchInventory(setKey')
                /\ suggestions' = computeSuggestions(query, setKey', parsedCache)
           ELSE UNCHANGED <<inventory, store, suggestions>>
        /\ RunLoadEffect(setKey', list, pendingSelection)
        /\ UNCHANGED <<parsedCache, importData, showImportModal, query, snapshot, filters>>

\* a fetch answers: the set is parsed and cached, and the load() that awaits it
\* goes on; a load() with nothing left to await sets the four card states, and
\* the deferred navigation hook runs on them
FetchDone ==
    \E f \in fetches :
        LET parsed == Parsed(f.key)
            cache  == cacheSet(parsedCache, parsed)
            owner  == {l \in loads : l.id = f.id}
            l      == CHOOSE l \in owner : TRUE
            rest   == l.waiting \ {f.key}
            more   == IF l.pc = "current" THEN othersToFetch(cache, l.sets, l.key) ELSE rest
        IN /\ parsedCache' = cache
           /\ IF owner = {}
              THEN /\ fetches' = fetches \ {f}
                   /\ UNCHANGED <<loads, shown>>
              ELSE IF more # {}
              THEN /\ loads' = (loads \ owner)
                                 \cup {[l EXCEPT !.pc = "others", !.waiting = more]}
                   /\ fetches' = (fetches \ {f})
                                   \cup (IF l.pc = "current"
                                         THEN {[id |-> l.id, key |-> k] : k \in more}
                                         ELSE {})
                   /\ UNCHANGED shown
              ELSE /\ loads' = loads \ owner
                   /\ fetches' = fetches \ {f}
                   /\ shown' = cacheGet(cache, l.key)
           /\ LET nav == navigationHook(pendingSelection, shown'.baseCards, setKey)
              IN /\ pendingSelection' = IF nav.ran THEN NoPending ELSE pendingSelection
                 /\ error' = IF nav.ran THEN nav.error ELSE error
                 /\ active' = IF nav.found THEN nav.active ELSE active
                 /\ viewSpread' = IF nav.found THEN nav.viewSpread ELSE viewSpread
                 /\ query' = IF nav.found THEN NoString ELSE query
                 /\ suggestions' = IF nav.found THEN <<>> ELSE suggestions
           /\ UNCHANGED <<sets, setKey, inventory, store, importData, showImportModal,
                          snapshot, filters>>

\* a fetch fails, or its answer cannot be parsed: the load() that awaits it is
\* rejected and its catch sets the error; its other fetches stay in flight, and
\* a fetch whose load() was rejected before has nobody left to report to
fetchFail(f) ==
    LET owner == {l \in loads : l.id = f.id}
    IN /\ fetches' = fetches \ {f}
       /\ loads' = loads \ owner
       /\ error' = IF owner # {} THEN LoadFailed ELSE error
       /\ UNCHANGED <<sets, setKey, parsedCache, shown, inventory, store, importData,
                      showImportModal, query, suggestions, snapshot, filters, active,
                      viewSpread, pendingSelection>>

FetchFail == \E f \in fetches : fetchFail(f)

-----------------------------------------------------------------------------
(* Search box and export *)

\* the texts typed into the search box
Queries ==
    { <<"1">>,
      <<"5">>,
      <<"0">>,
      <<"0","1">>,
      <<"3">>,
      <<"2">>,
      <<"a">>,
      <<"h","k">>,
      <<" ","y","o","d","a"," ">>,
      <<"t","h","e">>,
      <<"H","A","N">>,
      <<"7","7">>,
      <<"1","4">>,
      <<"y","o">>,
      <<"u","t","t">>,
      <<"9">>,
      <<"H","a","n">> }

TypeQuery ==
    \E q \in Queries :
        /\ query' = q
        /\ suggestions' = computeSuggestions(q, setKey, parsedCache)
        /\ UNCHANGED <<sets, setKey, parsedCache, shown, inventory, store, importData,
                       showImportModal, error, loads, fetches, snapshot, filters, active, viewSpread, pendingSelection>>

\* baseByName memo: Map(cardsBase.map(c => [c.Name, c])); of two base cards
\* with one name the later one stays
baseByName ==
    [name \in {cardsBase[i].Name : i \in DOMAIN cardsBase} |->
        cardsBase[CHOOSE i \in DOMAIN cardsBase :
                    cardsBase[i].Name = name
                    /\ \A j \in DOMAIN cardsBase : cardsBase[j].Name = name => j <= i]]

InvalidNumber  == "Invalid number."
NumberNotFound == "Number not found in this set."
NameNotFound   == "Name not found in this set."
EnterSomething == "Enter a name or number."

\* a number search that drops the selection when it finds nothing
goFromNumberString_Deselects(nStr) ==
    LET stripped == stripLeadingZeros(nStr)
        n        == NumberOfDigits(IF stripped = <<>> THEN <<"0">> ELSE stripped)
        baseNum  == IF n \in DOMAIN altToBase THEN altToBase[n] ELSE n
    IN IF n < 1 \/ baseNum \notin DOMAIN byNumber
       THEN /\ error' = NumberNotFound
            /\ active' = NoActive
            /\ UNCHANGED viewSpread
       ELSE /\ active' = activeAt(byNumber[baseNum], baseNum)
            /\ error' = ""
            /\ viewSpread' = pageToSpread(binderLayout(baseNum).page)

\* goFromNumberString(nStr), nStr digits only
goFromNumberString(nStr) ==
    LET stripped == stripLeadingZeros(nStr)
        n        == NumberOfDigits(IF stripped = <<>> THEN <<"0">> ELSE stripped)
        baseNum  == IF n \in DOMAIN altToBase THEN altToBase[n] ELSE n
    IN IF n < 1
       THEN /\ error' = InvalidNumber
            /\ UNCHANGED <<active, viewSpread>>
       ELSE IF baseNum \notin DOMAIN byNumber
       THEN /\ error' = NumberNotFound
            /\ UNCHANGED <<active, viewSpread>>
       ELSE /\ active' = activeAt(byNumber[baseNum], baseNum)
            /\ error' = ""
            /\ viewSpread' = pageToSpread(binderLayout(baseNum).page)

\* goFromName(name)
goFromName(name) ==
    IF name \notin DOMAIN baseByName
    THEN /\ error' = NameNotFound
         /\ UNCHANGED <<active, viewSpread>>
    ELSE /\ active' = activeAt(baseByName[name], baseByName[name].Number)
         /\ error' = ""
         /\ viewSpread' = pageToSpread(binderLayout(baseByName[name].Number).page)

\* onEnter: the Enter key in the search box
OnEnter ==
    LET q == trim(query)
    IN /\ IF q = <<>>
          THEN /\ error' = EnterSomething
               /\ UNCHANGED <<active, viewSpread>>
          ELSE IF isDigits(q) THEN goFromNumberString(q)
          ELSE goFromName(q)
       /\ UNCHANGED <<sets, setKey, parsedCache, shown, inventory, store, importData,
                      showImportModal, loads, fetches, query, suggestions, snapshot,
                      filters, pendingSelection>>

\* onChoose(s): a suggestion of another set is kept as the pending selection and
\* the active set is switched; one of the active set is navigated to
onChoose(s) ==
    /\ query' = NoString
    /\ suggestions' = <<>>
    /\ IF s.setKey # setKey
       THEN /\ setKey' = s.setKey
            /\ SwitchInventory(s.setKey)
            /\ RunLoadEffect(s.setKey, sets,
                             [none |-> FALSE, name |-> s.name, number |-> s.number])
       ELSE /\ IF s.kind = "number" THEN goFromNumberString(StringOfInt(s.number))
               ELSE goFromName(s.name)
            /\ UNCHANGED <<setKey, shown, inventory, store, loads, fetches,
                           pendingSelection>>
    /\ UNCHANGED <<sets, parsedCache, importData, showImportModal, snapshot, filters>>

OnChoose == \E i \in DOMAIN suggestions : onChoose(suggestions[i])

\* exportAllInv: the stored ledger of every set of the manifest, as written to
\* the downloaded file
exportPayload(st, keys) ==
    [i \in DOMAIN keys |-> <<keys[i], stringifyInv(readSetInv(st, keys[i]))>>]

ExportAllInv ==
    /\ snapshot = <<>>
    /\ snapshot' = exportPayload(store, sets)
    /\ UNCHANGED <<sets, setKey, parsedCache, shown, inventory, store, importData,
                   showImportModal, error, loads, fetches, query, suggestions, filters, active, viewSpread, pendingSelection>>

\* the exported file is chosen in the file picker
ImportExported ==
    /\ snapshot # <<>>
    /\ handleFileChange(JsonFile(1, snapshot))

-----------------------------------------------------------------------------
(* The binder: cells, pager, slot clicks and the keyboard *)

\* Math.ceil(a / b) for a >= 0
ceilDiv(a, b) == (a + b - 1) \div b

RECURSIVE maxFold(_, _)
maxFold(cards, m) ==
    IF cards = <<>> THEN m ELSE maxFold(Tail(cards), Max(m, Head(cards).Number))

maxNumber    == maxFold(cardsBase, 0)
totalPages   == Max(1, ceilDiv(maxNumber, 12))
totalSpreads == 1 + ceilDiv(Max(0, totalPages - 1), 2)

presentNumbers == {cardsBase[i].Number : i \in DOMAIN cardsBase}

\* the two pages of the viewed spread s
leftPage(s) ==
    LET page == spreadToPrimaryPage(s)
    IN IF jsRem(page, 2) = 0 THEN page ELSE page - 1

rightPage(s) ==
    LET page == spreadToPrimaryPage(s)
    IN IF jsRem(page, 2) = 1 THEN page ELSE page + 1

\* the cell at row r, spread column c of the viewed spread s
cellHidden(s, c) == c <= 4 /\ ~(leftPage(s) >= 2)

\* a cell numbering that takes both halves of the spread from the primary page
cellNumber_PrimaryOnly(s, r, c) ==
    numberFromPRC(spreadToPrimaryPage(s), r, IF c <= 4 THEN c ELSE c - 4)

cellNumber(s, r, c) ==
    numberFromPRC(IF c <= 4 THEN leftPage(s) ELSE rightPage(s), r,
                  IF c <= 4 THEN c ELSE c - 4)

\* what the binder actions leave alone
BinderFrame ==
    UNCHANGED <<sets, setKey, parsedCache, shown, inventory, store, importData,
                showImportModal, error, loads, fetches, query, suggestions, snapshot,
                filters, pendingSelection>>

\* onClick of a cell: a hidden cell or one without a base card does nothing
clickCell(r, c) ==
    LET n == cellNumber(viewSpread, r, c)
    IN /\ IF cellHidden(viewSpread, c) \/ n \notin presentNumbers
          THEN UNCHANGED <<active, viewSpread>>
          ELSE LET slot == binderLayout(n)
               IN /\ active' = [none |-> FALSE, card |-> byNumber[n], page |-> slot.page,
                                row |-> slot.row, column |-> slot.column,
                                spreadCol |-> c, spreadRow |-> r]
                  /\ viewSpread' = pageToSpread(slot.page)
       /\ BinderFrame

ClickCell == \E r \in 1..3, c \in 1..8 : clickCell(r, c)

\* updateActivePosition(deltaCol, deltaRow)
updateActivePosition(deltaCol, deltaRow) ==
    LET currentNum   == active.card.Number
        page         == binderLayout(currentNum).page
        col0         == active.spreadCol + deltaCol
        row0         == active.spreadRow + deltaRow
        colWrap      == IF deltaCol # 0 /\ col0 > 8 THEN 1
                        ELSE IF deltaCol # 0 /\ col0 < 1 THEN -1 ELSE 0
        rowWrap      == IF deltaRow # 0 /\ row0 > 3 THEN 1
                        ELSE IF deltaRow # 0 /\ row0 < 1 THEN -1 ELSE 0
        newSpreadCol == IF colWrap = 1 THEN 1 ELSE IF colWrap = -1 THEN 8 ELSE col0
        newSpreadRow == IF rowWrap = 1 THEN 1 ELSE IF rowWrap = -1 THEN 3 ELSE row0
        targetSpread == pageToSpread(page) + colWrap + rowWrap
        primary      == spreadToPrimaryPage(targetSpread)
        targetPage   == IF newSpreadCol <= 4
                        THEN IF jsRem(primary, 2) # 0 /\ primary > 1 THEN primary - 1
                             ELSE primary
                        ELSE IF jsRem(primary, 2) = 0 THEN primary + 1 ELSE primary
        targetColOnPage == IF newSpreadCol <= 4 THEN newSpreadCol ELSE newSpreadCol - 4
        newNumCandidate == numberFromPRC(targetPage, newSpreadRow, targetColOnPage)
    IN IF \/ targetSpread < 0 \/ targetSpread > totalSpreads - 1
          \/ (newSpreadCol <= 4 /\ targetPage = 1)
          \/ newNumCandidate > totalPages * 12
       THEN UNCHANGED <<active, viewSpread>>
       ELSE /\ active' = [none |-> FALSE,
                          card |-> IF newNumCandidate \in DOMAIN byNumber
                                   THEN byNumber[newNumCandidate]
                                   ELSE [active.card EXCEPT !.Number = newNumCandidate],
                          page |-> targetPage, row |-> newSpreadRow,
                          column |-> targetColOnPage,
                          spreadCol |-> newSpreadCol, spreadRow |-> newSpreadRow]
            /\ viewSpread' = targetSpread

\* the arrow keys, with a selection
ArrowKey ==
    /\ active # NoActive
    /\ \E d \in {<<-1, 0>>, <<1, 0>>, <<0, -1>>, <<0, 1>>} :
           updateActivePosition(d[1], d[2])
    /\ BinderFrame

\* the selection a page flip by deltaSpread to newSpread leaves
flippedActive(deltaSpread, newSpread) ==
    LET moved   == active.card.Number + deltaSpread * 24
        floored == IF newSpread = 0 THEN Max(1, moved) ELSE moved
        newNum  == Min(totalPages * 12, floored)
        firstNumOnSpread == newSpread * 24 + 1
        pick(n) == IF n \in DOMAIN byNumber THEN n
                   ELSE IF Max(1, n) \in DOMAIN byNumber THEN Max(1, n) ELSE 0
        found   == IF pick(newNum) # 0 THEN pick(newNum) ELSE pick(firstNumOnSpread)
    IN IF found = 0 THEN NoActive ELSE activeAt(byNumber[found], found)

\* the "," and "." keys
flipKey(deltaSpread) ==
    LET newSpread == Max(0, Min(totalSpreads - 1, viewSpread + deltaSpread))
    IN /\ IF newSpread # viewSpread
          THEN /\ active' = IF active # NoActive THEN flippedActive(deltaSpread, newSpread)
                            ELSE active
               /\ viewSpread' = newSpread
          ELSE UNCHANGED <<active, viewSpread>>
       /\ BinderFrame

FlipKey == \E deltaSpread \in {-1, 1} : flipKey(deltaSpread)

\* the pager: Prev, Next and the spread select
Pager ==
    /\ \/ viewSpread' = Max(0, viewSpread - 1)
       \/ viewSpread' = Min(totalSpreads - 1, viewSpread + 1)
       \/ \E s \in 0..(totalSpreads - 1) : viewSpread' = s
    /\ UNCHANGED active
    /\ BinderFrame

\* the Escape key
Escape ==
    /\ active' = NoActive
    /\ UNCHANGED viewSpread
    /\ BinderFrame

MaxHeld == 1       \* ledger entries the + key may open

\* the + and - keys, with a selection: inc and dec of the selected card's number
KeyPlus ==
    /\ active # NoActive
    /\ active.card.Number \in DOMAIN inventory \/ Cardinality(DOMAIN inventory) < MaxHeld
    /\ inventory' = inc(inventory, active.card.Number)
    /\ Persist
    /\ UNCHANGED <<sets, setKey, parsedCache, shown, importData, showImportModal, error,
                   loads, fetches, query, suggestions, snapshot, filters, active,
                   viewSpread, pendingSelection>>

KeyMinus ==
    /\ active # NoActive
    /\ inventory' = dec(inventory, active.card.Number)
    /\ Persist
    /\ UNCHANGED <<sets, setKey, parsedCache, shown, importData, showImportModal, error,
                   loads, fetches, query, suggestions, snapshot, filters, active,
                   viewSpread, pendingSelection>>

-----------------------------------------------------------------------------
(* Filters, inventory rows and completion counters *)

\* handleFilterChange(category, value): the value is removed from the category's
\* list if it is there, appended otherwise
handleFilterChange(category, value) ==
    LET currentFilters == filters[category]
        newFilters     == IF value \in Range(currentFilters)
                          THEN SelectSeq(currentFilters, LAMBDA item : item # value)
                          ELSE Append(currentFilters, value)
    IN /\ filters' = [filters EXCEPT ![category] = newFilters]
       /\ UNCHANGED <<sets, setKey, parsedCache, shown, inventory, store, importData,
                      showImportModal, error, loads, fetches, query, suggestions,
                      snapshot, active, viewSpread, pendingSelection>>

\* the filter buttons pressed: two aspects, a rarity and a type
ToggleFilter ==
    \/ \E item \in {"Vigilance", "NEUTRAL"} : handleFilterChange("aspect", item)
    \/ handleFilterChange("rarity", Special)
    \/ handleFilterChange("type", BaseT)

\* handleClearFilters
ClearFilters ==
    /\ filters # NoFilters
    /\ filters' = NoFilters
    /\ UNCHANGED <<sets, setKey, parsedCache, shown, inventory, store, importData,
                   showImportModal, error, loads, fetches, query, suggestions,
                   snapshot, active, viewSpread, pendingSelection>>

\* passesAllFilters: an empty list lets every card pass; a card with no aspect
\* counts as NEUTRAL
passesAllFilters(card) ==
    LET primaryAspect == IF Len(card.Aspects) > 0 /\ card.Aspects[1] # ""
                         THEN card.Aspects[1] ELSE "NEUTRAL"
    IN /\ Len(filters.aspect) > 0 => primaryAspect \in Range(filters.aspect)
       /\ Len(filters.rarity) > 0 => card.Rarity \in Range(filters.rarity)
       /\ Len(filters.type) > 0 => card.Type \in Range(filters.type)

\* a sum that looks at the base number only
haveOver_BaseOnly(nums, inv) == IF nums = <<>> THEN 0 ELSE Qty(inv, Head(nums))

\* nums.reduce((sum, n) => sum + (inventory[n] || 0), 0)
RECURSIVE haveOver(_, _)
haveOver(nums, inv) ==
    IF nums = <<>> THEN 0 ELSE Qty(inv, Head(nums)) + haveOver(Tail(nums), inv)

\* one row of filteredAllRows
allRow(baseCard) ==
    LET baseNum == baseCard.Number
        nums    == IF baseNum \in DOMAIN baseToAll THEN baseToAll[baseNum] ELSE <<baseNum>>
        have    == haveOver(nums, inventory)
        max     == quotaForType(baseCard.Type)
    IN [Number |-> baseNum, Name |-> baseCard.Name, Subtitle |-> baseCard.Subtitle,
        Type |-> baseCard.Type, Rarity |-> baseCard.Rarity, Price |-> baseCard.MarketPrice,
        Qty |-> have, Max |-> max, Needed |-> Max(0, max - have)]

\* filteredAllRows memo: a row per base card that passes the filters, by Number
filteredAllRows ==
    LET passing == SelectSeq(cardsBase, passesAllFilters)
    IN StableSort([i \in DOMAIN passing |-> allRow(passing[i])], byNumberAsc)

\* filteredMissingRows memo: the rows with Qty < Max
filteredMissingRows ==
    LET short == SelectSeq(filteredAllRows, LAMBDA r : r.Qty < r.Max)
    IN [i \in DOMAIN short |->
          [Number |-> short[i].Number, Name |-> short[i].Name, Type |-> short[i].Type,
           Have |-> short[i].Qty, Max |-> short[i].Max, Needed |-> short[i].Needed,
           Price |-> short[i].Price, RowTotal |-> short[i].Needed * short[i].Price]]

\* a loop that counts a row as complete only when Qty equals Max
RECURSIVE statusFold_ExactOnly(_, _)
statusFold_ExactOnly(rows, acc) ==
    IF rows = <<>> THEN acc
    ELSE LET r == Head(rows)
         IN statusFold_ExactOnly(Tail(rows),
                IF r.Qty = r.Max THEN [acc EXCEPT !.complete = @ + 1]
                ELSE IF r.Qty > 0 /\ r.Qty < r.Max THEN [acc EXCEPT !.incomplete = @ + 1]
                ELSE IF r.Qty = 0 THEN [acc EXCEPT !.missing = @ + 1]
                ELSE acc)

\* the loop of inventoryStatus: each row raises one of the three counters
RECURSIVE statusFold(_, _)
statusFold(rows, acc) ==
    IF rows = <<>> THEN acc
    ELSE LET r == Head(rows)
         IN statusFold(Tail(rows),
                IF r.Qty >= r.Max THEN [acc EXCEPT !.complete = @ + 1]
                ELSE IF r.Qty > 0 THEN [acc EXCEPT !.incomplete = @ + 1]
                ELSE [acc EXCEPT !.missing = @ + 1])

\* inventoryStatus memo
inventoryStatus ==
    LET counted == statusFold(filteredAllRows, [complete |-> 0, incomplete |-> 0, missing |-> 0])
    IN [complete   |-> counted.complete,
        incomplete |-> counted.incomplete,
        missing    |-> counted.missing,
        totalCards |-> Len(filteredAllRows)]

-----------------------------------------------------------------------------
(* Specifications *)

Next ==
    \/ Inc
    \/ Dec
    \/ BulkAction
    \/ ResetInventory
    \/ HandleFileChange
    \/ CancelImport
    \/ ApplyImport("merge")
    \/ ApplyImport("replace")
    \/ SelectSet

\* the ledger application with every set of the manifest cached
Spec == Init /\ [][Next]_vars

\* the + and - controls, the bulk modal and the set selector
NextBulk == Inc \/ Dec \/ BulkAction \/ SelectSet

SpecBulk == Init /\ [][NextBulk]_vars

\* only the + and - controls and the set selector
NextIncDec == Inc \/ Dec \/ SelectSet

SpecIncDec == Init /\ [][NextIncDec]_vars

\* the application from its start: nothing fetched, the manifest pending
InitFresh ==
    /\ sets = <<>>
    /\ setKey = LOF
    /\ parsedCache = <<>>
    /\ shown = NothingShown
    /\ inventory = EmptyInv
    /\ store = EmptyStore
    /\ importData = <<>>
    /\ showImportModal = FALSE
    /\ error = ""
    /\ loads = {}
    /\ fetches = {}
    /\ query = NoString
    /\ suggestions = <<>>
    /\ snapshot = <<>>
    /\ filters = NoFilters
    /\ active = NoActive
    /\ viewSpread = 0
    /\ pendingSelection = NoPending

NextLoad == ManifestLoaded \/ SelectSet \/ FetchDone \/ FetchFail

SpecLoad == InitFresh /\ [][NextLoad]_vars

\* the search box over a loaded application: every set of the manifest cached
InitSearch ==
    \E list \in Manifests :
        InitApp(list, IF LOF \in Range(list) THEN LOF ELSE list[1])

NextSearch == TypeQuery \/ SelectSet

SpecSearch == InitSearch /\ [][NextSearch]_vars

\* the search box with its Enter key
NextGo == TypeQuery \/ OnEnter \/ SelectSet

SpecGo == InitSearch /\ [][NextGo]_vars

\* the search box with its suggestion list
NextChoose == TypeQuery \/ OnChoose \/ SelectSet

SpecChoose == InitSearch /\ [][NextChoose]_vars

\* export and re-import, started with either set active
InitExport == InitApp(<<SOR, LOF>>, LOF) \/ InitApp(<<SOR, LOF>>, SOR)

NextExport ==
    \/ Inc
    \/ Dec
    \/ ExportAllInv
    \/ ImportExported
    \/ CancelImport
    \/ ApplyImport("replace")

SpecExport == InitExport /\ [][NextExport]_vars

\* files imported in replace mode, one after another
NextReplace == HandleFileChange \/ CancelImport \/ ApplyImport("replace") \/ SelectSet

SpecReplace == Init /\ [][NextReplace]_vars

\* the file picker and the import modal, with the + and - controls and the set
\* selector
NextImport ==
    Inc \/ Dec \/ SelectSet \/ HandleFileChange \/ ChooseUnrecognized \/ CancelImport

SpecImport == Init /\ [][NextImport]_vars

\* the inventory tables: the + and - controls, the set selector, the filters
NextRows == Inc \/ Dec \/ SelectSet \/ ToggleFilter \/ ClearFilters

SpecRows == Init /\ [][NextRows]_vars

\* the binder with a two-page set displayed: clicks, arrow keys, page flips
InitBinder == InitApp(<<SHD, LOF>>, SHD)

NextBinder == ClickCell \/ ArrowKey \/ FlipKey \/ Pager \/ Escape \/ SelectSet

SpecBinder == InitBinder /\ [][NextBinder]_vars

\* the binder with the + and - keys on the selection
NextKeys == ClickCell \/ ArrowKey \/ FlipKey \/ Escape \/ KeyPlus \/ KeyMinus

SpecKeys == InitBinder /\ [][NextKeys]_vars

-----------------------------------------------------------------------------
(* Properties *)

\* the type the catalog of set k gives the card numbered n; none when the set
\* has no such card
catalogType(k, n) ==
    LET cs  == Parsed(k).allCards
        hit == {i \in DOMAIN cs : cs[i].Number = n}
    IN IF hit = {} THEN NoString ELSE cs[CHOOSE i \in hit : TRUE].Type

quotaIn(k, n) == quotaForType(catalogType(k, n))

baseNumbers(parsed) == {parsed.baseCards[i].Number : i \in DOMAIN parsed.baseCards}

\* C1: in every state, every entry of every set's stored ledger, and of the
\* in-memory ledger of the active set, holds a quantity no greater than the quota
\* of that card's type in that set's catalog
C1_QuotaInvariant ==
    /\ \A k \in AllSetKeys : \A n \in DOMAIN readSetInv(store, k) :
           readSetInv(store, k)[n] <= quotaIn(k, n)
    /\ \A n \in DOMAIN inventory : inventory[n] <= quotaIn(setKey, n)

\* C2: under inc and dec alone, from an empty ledger, every entry of the active
\* set's ledger holds a quantity from 1 to the quota of its card (so a key is
\* present exactly when its quantity is above 0), inc at the quota and dec at 0
\* leave the ledger as it is, and inc and dec never leave 0..quota
C2_IncDecSaturation ==
    /\ \A n \in DOMAIN inventory : 0 < inventory[n] /\ inventory[n] <= quotaIn(setKey, n)
    /\ \A n \in IncTargets :
           /\ Qty(inventory, n) = quotaIn(setKey, n) => inc(inventory, n) = inventory
           /\ Qty(inventory, n) = 0 => dec(inventory, n) = inventory
           /\ Qty(inc(inventory, n), n) <= quotaIn(setKey, n)
           /\ Qty(dec(inventory, n), n) >= 0
           /\ n \in DOMAIN dec(inventory, n) <=> Qty(dec(inventory, n), n) > 0
           /\ n \in DOMAIN inc(inventory, n) <=> Qty(inc(inventory, n), n) > 0

\* a Leader of the active set stands at its quota of 1, where a further inc
\* changes nothing
C2_LeaderAtQuota ==
    /\ setKey = LOF
    /\ catalogType(LOF, 1) = LeaderT
    /\ 1 \in DOMAIN inventory
    /\ inventory[1] = 1
    /\ inc(inventory, 1) = inventory

\* the alt-printing numbers of the displayed set: keys of altToBase that are not
\* base card numbers
altNumbers == DOMAIN altToBase \ baseNumbers(shown)

\* C3: inc on an alt-printing number of the active set creates no entry: the
\* ledger never holds a key that is an alt number
C3_NoAltEntry == \A n \in altNumbers : n \notin DOMAIN inventory

\* C4: no two fetches for the same set key are in flight at the same time
C4_OneFetchPerKey == \A f, g \in fetches : f.key = g.key => f = g

\* the quantities the claim gives the ledger of set k after an import of imp
replaceExpected(imp, k, n) ==
    IF n \in DOMAIN imp THEN Max(0, Min(imp[n], quotaIn(k, n))) ELSE 0

mergeExpected(old, imp, k, n) ==
    IF n \in DOMAIN imp THEN Max(0, Min(Qty(old, n) + imp[n], quotaIn(k, n)))
    ELSE Qty(old, n)

touched(k) ==
    DOMAIN importData[k] \cup DOMAIN readSetInv(store, k) \cup DOMAIN readSetInv(store', k)

\* C5: a step of applyImport leaves, for every set of the import, active or not:
\* in replace mode exactly the imported counts capped at each card's quota; in
\* merge mode min(existing + imported, quota) for each imported number and every
\* other entry as it was
C5_ApplyImportSemantics ==
    [][ /\ ApplyImport("replace") =>
             \A k \in DOMAIN importData : \A n \in touched(k) :
                 Qty(readSetInv(store', k), n) = replaceExpected(importData[k], k, n)
        /\ ApplyImport("merge") =>
             \A k \in DOMAIN importData : \A n \in touched(k) :
                 Qty(readSetInv(store', k), n)
                   = mergeExpected(readSetInv(store, k), importData[k], k, n) ]_vars

\* C6: a step of applyImport, in either mode, adds to a set's ledger only keys
\* that are base card numbers of that set's catalog
C6_ImportAddsOnlyBaseNumbers ==
    [][ (ApplyImport("merge") \/ ApplyImport("replace")) =>
            \A k \in AllSetKeys :
                \A n \in DOMAIN readSetInv(store', k) \ DOMAIN readSetInv(store, k) :
                    n \in baseNumbers(Parsed(k)) ]_vars

\* C7: applying, in replace mode, the import parsed from the exported snapshot
\* leaves every set listed in the snapshot with the ledger it had at export time
C7_ExportImportRoundTrip ==
    [][ ( /\ snapshot # <<>>
          /\ importData = parseFile(JsonFile(1, snapshot), parsedCache).data
          /\ ApplyImport("replace") ) =>
            \A i \in DOMAIN snapshot :
                readSetInv(store', snapshot[i][1]) = parseInv(snapshot[i][2]) ]_vars

\* whether the normalized name or subtitle of card c holds the normalized query
nameHolds(c, q) ==
    \/ indexOf(norm(c.Name), norm(trim(q))) >= 0
    \/ (c.Subtitle # NoString /\ indexOf(norm(c.Subtitle), norm(trim(q))) >= 0)

hasSuggestion(kind, key, number) ==
    \E i \in DOMAIN suggestions :
        /\ suggestions[i].kind = kind
        /\ suggestions[i].setKey = key
        /\ suggestions[i].number = number

\* C8: for a digits-only query whose list is not cut, every base card of a cached
\* set whose name or subtitle holds the query is a name suggestion unless the
\* numeric branch emitted that base number for that same set, and number
\* suggestions come before name suggestions
C8_NameBranchExclusion ==
    (isDigits(trim(query)) /\ Len(suggestions) < SuggestionLimit) =>
        /\ \A x \in DOMAIN parsedCache : \A y \in DOMAIN parsedCache[x].baseCards :
               LET c == parsedCache[x].baseCards[y]
               IN nameHolds(c, query) =>
                      \/ hasSuggestion("name", parsedCache[x].key, c.Number)
                      \/ hasSuggestion("number", parsedCache[x].key, c.Number)
        /\ \A i, j \in DOMAIN suggestions :
               (suggestions[i].kind = "number" /\ suggestions[j].kind = "name") => i < j

\* the integer a digits-only query stands for, leading zeros stripped
queryNumber(q) == NumberOfDigits(stripLeadingZeros(trim(q)))

\* C9: for a digits-only query standing for q, a cached set has a number
\* suggestion exactly when q is one of its base card numbers or a key of its
\* altToBase; that suggestion carries the resolved base number; and no pair of
\* set key and number is listed twice
C9_NumericBranch ==
    isDigits(trim(query)) =>
        /\ \A x \in DOMAIN parsedCache :
               LET parsed == parsedCache[x]
                   q      == queryNumber(query)
                   isBase == q \in baseNumbers(parsed)
                   isAlt  == q \in DOMAIN parsed.altToBase
               IN /\ (\E i \in DOMAIN suggestions :
                          suggestions[i].kind = "number" /\ suggestions[i].setKey = parsed.key)
                      <=> (isBase \/ isAlt)
                  /\ \A i \in DOMAIN suggestions :
                         (suggestions[i].kind = "number" /\ suggestions[i].setKey = parsed.key)
                             => suggestions[i].number
                                  = (IF isBase THEN q ELSE parsed.altToBase[q])
        /\ \A i, j \in DOMAIN suggestions :
               (suggestions[i].setKey = suggestions[j].setKey
                /\ suggestions[i].number = suggestions[j].number) => i = j

\* C10: the list has at most 10 entries, number suggestions come before name
\* suggestions, and within each kind the active set's come before the others'
C10_SuggestionOrder ==
    /\ Len(suggestions) <= SuggestionLimit
    /\ \A i, j \in DOMAIN suggestions :
           (suggestions[i].kind = "number" /\ suggestions[j].kind = "name") => i < j
    /\ \A i, j \in DOMAIN suggestions :
           (/\ suggestions[i].kind = suggestions[j].kind
            /\ suggestions[i].setKey = setKey
            /\ suggestions[j].setKey # setKey) => i < j

\* a list with number suggestions of the active set and of another set and a
\* name suggestion, the active set not being the first of the cache
C10_MixedList ==
    /\ parsedCache[1].key # setKey
    /\ \E i, j, k \in DOMAIN suggestions :
           /\ suggestions[i].kind = "number" /\ suggestions[i].setKey = setKey
           /\ suggestions[j].kind = "number" /\ suggestions[j].setKey # setKey
           /\ suggestions[k].kind = "name"

\* the printings the inventory tables add up for base number b
printingsOf(b) == IF b \in DOMAIN baseToAll THEN Range(baseToAll[b]) ELSE {b}

RECURSIVE sumQty(_)
sumQty(S) == IF S = {} THEN 0
             ELSE LET n == CHOOSE n \in S : TRUE IN Qty(inventory, n) + sumQty(S \ {n})

\* the base cards of the displayed set that pass the filters, by index
passing == {i \in DOMAIN cardsBase : passesAllFilters(cardsBase[i])}

missingRowsOf(n) == {i \in DOMAIN filteredMissingRows : filteredMissingRows[i].Number = n}

\* C11: with the active set on display, a base card that passes the filters has
\* one row in the missing list exactly when the quantities of its printings add
\* up to less than its quota; the row holds Have = that sum, Needed = quota - sum
\* and RowTotal = Needed * unit price; and no other card has a row
C11_MissingRows ==
    shown.key = setKey =>
        /\ \A i \in passing :
             LET c     == cardsBase[i]
                 have  == sumQty(printingsOf(c.Number))
                 quota == quotaForType(c.Type)
                 rows  == missingRowsOf(c.Number)
             IN /\ have < quota <=> rows # {}
                /\ Cardinality(rows) <= 1
                /\ \A j \in rows :
                     /\ filteredMissingRows[j].Have = have
                     /\ filteredMissingRows[j].Needed = quota - have
                     /\ filteredMissingRows[j].RowTotal = (quota - have) * c.MarketPrice
        /\ \A j \in DOMAIN filteredMissingRows :
             \E i \in passing : cardsBase[i].Number = filteredMissingRows[j].Number

\* a base number holding 1 and its alt printing holding 1, quota 3: have 2,
\* needed 1
C11_BaseAndAltHeld ==
    /\ setKey = SOR
    /\ shown.key = SOR
    /\ Qty(inventory, 3) = 1
    /\ Qty(inventory, 5) = 1
    /\ \E j \in missingRowsOf(3) :
         /\ filteredMissingRows[j].Have = 2
         /\ filteredMissingRows[j].Max = 3
         /\ filteredMissingRows[j].Needed = 1
         /\ filteredMissingRows[j].RowTotal = 5

haveOf(i) == sumQty(printingsOf(cardsBase[i].Number))

quotaOf(i) == quotaForType(cardsBase[i].Type)

\* C13: with the active set on display, totalCards is the number of base cards
\* that pass the filters, the three counters add up to it, and each counter is
\* the number of passing cards of its class (complete: have >= quota,
\* incomplete: 0 < have < quota, missing: have = 0)
C13_CompletionPartition ==
    shown.key = setKey =>
        /\ inventoryStatus.complete + inventoryStatus.incomplete + inventoryStatus.missing
             = inventoryStatus.totalCards
        /\ inventoryStatus.totalCards = Cardinality(passing)
        /\ inventoryStatus.complete = Cardinality({i \in passing : haveOf(i) >= quotaOf(i)})
        /\ inventoryStatus.incomplete
             = Cardinality({i \in passing : 0 < haveOf(i) /\ haveOf(i) < quotaOf(i)})
        /\ inventoryStatus.missing = Cardinality({i \in passing : haveOf(i) = 0})

\* after ledger mutations and a filter change: a complete card is filtered out,
\* the one card left is counted as missing
C13_FilteredCount ==
    /\ setKey = LOF
    /\ shown.key = LOF
    /\ filters.type = <<BaseT>>
    /\ Qty(inventory, 1) = 1
    /\ inventoryStatus = [complete |-> 0, incomplete |-> 0, missing |-> 1, totalCards |-> 1]

\* C14: a step that changes the active set leaves every set's stored ledger as
\* it was, and the in-memory ledger is then the stored ledger of the new set
C14_SwitchKeepsLedgers ==
    [][ setKey' # setKey =>
          /\ \A k \in AllSetKeys : readSetInv(store', k) = readSetInv(store, k)
          /\ store' = store
          /\ inventory' = readSetInv(store', setKey') ]_vars

\* the active set has been switched to SOR with entries stored for both sets
C14_SwitchedWithLedgers ==
    /\ setKey = SOR
    /\ readSetInv(store, LOF) # EmptyInv
    /\ readSetInv(store, SOR) # EmptyInv
    /\ inventory = readSetInv(store, SOR)
    /\ readSetInv(store, SOR) # readSetInv(store, LOF)

\* a load request for the uncached key it makes active starts a fetch for it
refetched ==
    (setKey' # setKey /\ setKey' \in Range(sets') /\ ~isCached(parsedCache, setKey'))
        => \E f \in fetches' \ fetches : f.key = setKey'

\* C15: after a step in which a set's fetch fails the cache holds no entry for
\* that key and the error message is set; and a load request for an uncached
\* key starts a new fetch
C15_FailureNotCached ==
    [][ /\ \A f \in fetches : fetchFail(f) =>
               /\ ~isCached(parsedCache', f.key)
               /\ error' = LoadFailed
        /\ refetched ]_vars

\* the keys the cache holds an entry for
keysOf(cache) == {cache[i].key : i \in DOMAIN cache}

\* C16: in every step, each cached entry stays in the cache with the catalog it
\* holds, and no fetch is started for a key that is cached
C16_CachedOnce ==
    [][ /\ \A i \in DOMAIN parsedCache :
               \E j \in DOMAIN parsedCache' : parsedCache'[j] = parsedCache[i]
        /\ Len(parsedCache') >= Len(parsedCache)
        /\ \A f \in fetches' \ fetches : f.key \notin keysOf(parsedCache) ]_vars

\* SOR and SHD are cached and SHD, cached before, has been made the active set:
\* its catalog is on display with nothing in flight
C16_CachedSetShown ==
    /\ sets = <<SOR, SHD>>
    /\ keysOf(parsedCache) = {SOR, SHD}
    /\ parsedCache[1].key = SOR
    /\ setKey = SHD
    /\ shown = Parsed(SHD)
    /\ loads = {}
    /\ fetches = {}
    /\ error = ""

\* C17: when the build of a non-active set fails while the load() of the active
\* set, whose catalog is built and cached, awaits it, the active set's catalog
\* is the displayed catalog after the step
C17_WarmupNonBlocking ==
    [][ \A f \in fetches :
          ( /\ fetchFail(f)
            /\ f.key # setKey
            /\ isCached(parsedCache, setKey)
            /\ \E l \in loads : l.id = f.id /\ l.key = setKey /\ l.pc = "others" )
          => shown' = cacheGet(parsedCache, setKey) ]_vars

\* C18: choosing a file that is in no recognized format sets the import error
\* message and leaves the in-memory ledger, every stored ledger, the pending
\* import data and the import modal as they were
C18_UnrecognizedFile ==
    [][ \A file \in UnrecognizedFiles :
          handleFileChange(file) =>
              /\ error' = ImportFailed(NotRecognized)
              /\ UNCHANGED <<inventory, store, importData, showImportModal>> ]_vars

\* the trimmed query q resolves to no card of the displayed set: it is empty, or
\* digits only and below 1 or neither a base nor an alt number, or it is not the
\* name of a base card
resolvesToNoCard(q) ==
    \/ q = <<>>
    \/ /\ isDigits(q)
       /\ \/ queryNumber(q) < 1
          \/ queryNumber(q) \notin baseNumbers(shown) \cup DOMAIN altToBase
    \/ /\ q # <<>>
       /\ ~isDigits(q)
       /\ \A i \in DOMAIN cardsBase : cardsBase[i].Name # q

\* C19: an Enter on a query that resolves to no card sets an error message and
\* leaves the selection, the viewed spread, the in-memory ledger and every stored
\* ledger as they were
C19_FailedSearchNoMutation ==
    [][ (OnEnter /\ resolvesToNoCard(trim(query))) =>
          /\ error' # ""
          /\ UNCHANGED <<active, viewSpread, inventory, store>> ]_vars

\* a number that the set lacks has been searched while a card of page 2 was
\* selected: the message is shown, the selection and the spread are kept
C19_NotFoundKeepsSelection ==
    /\ error = NumberNotFound
    /\ active # NoActive
    /\ active.card.Number = 14
    /\ viewSpread = 1
    /\ query = <<"7","7">>

\* C20: a replace import is idempotent: in the state a replace application of
\* importData leaves, the catalog context is the one it ran in, and applying the
\* same importData in replace mode once more writes for every set the ledger
\* that is already stored, and for the active set the inventory already in memory
C20_ReplaceIdempotent ==
    [][ ApplyImport("replace") =>
          /\ UNCHANGED <<setKey, shown, parsedCache>>
          /\ \A k \in appliedKeys(importData) :
                LET again == importedLedger(store', k, importData[k], "replace")
                IN /\ again = readSetInv(store', k)
                   /\ k = setKey => again = inventory'
          /\ inventory' = readSetInv(store', setKey) ]_vars

\* a replace import has been applied with SOR active: the modal is closed, the
\* parsed data is gone and the SOR ledger holds what the file gave for Yoda
C20_ReplaceApplied ==
    /\ ~showImportModal
    /\ importData = <<>>
    /\ error = ""
    /\ setKey = SOR
    /\ inventory # EmptyInv
    /\ Qty(inventory, 3) > 0
    /\ readSetInv(store, LOF) # EmptyInv

MaxPage == 4       \* pages over which the layout functions are compared

\* C21: binderLayout and numberFromPRC are mutually inverse: every number from 1
\* on is the number of its own slot, every slot (page from 1 on, row 1..3,
\* column 1..4) is the slot of its own number, and the selection the binder
\* holds always names a slot and a number that correspond both ways
C21_LayoutRoundTrip ==
    /\ \A n \in 1..(MaxPage * 12) :
           LET slot == binderLayout(n)
           IN /\ slot.page >= 1 /\ slot.row \in 1..3 /\ slot.column \in 1..4
              /\ numberFromPRC(slot.page, slot.row, slot.column) = n
    /\ \A p \in 1..MaxPage, r \in 1..3, c \in 1..4 :
           binderLayout(numberFromPRC(p, r, c)) = [page |-> p, row |-> r, column |-> c]
    /\ active # NoActive =>
           /\ numberFromPRC(active.page, active.row, active.column) = active.card.Number
           /\ binderLayout(active.card.Number)
                = [page |-> active.page, row |-> active.row, column |-> active.column]

\* the arrow keys have moved the selection to slot 13, the first slot of page 2,
\* which holds no card: its number came from numberFromPRC
C21_ArrowOntoSlot13 ==
    /\ active # NoActive
    /\ active.card.Number = 13
    /\ 13 \notin presentNumbers
    /\ active.page = 2 /\ active.row = 1 /\ active.column = 1

oneOrEven(p) == p = 1 \/ p % 2 = 0

\* C22: pageToSpread is non-decreasing in the page number, and the primary page
\* of the spread of every page from 1 on is 1 or even; so is the primary page of
\* the spread the binder views
C22_SpreadMonotone ==
    /\ \A p, q \in (-1)..(MaxPage + 1) : p <= q => pageToSpread(p) <= pageToSpread(q)
    /\ \A p \in 1..(MaxPage + 1) : oneOrEven(spreadToPrimaryPage(pageToSpread(p)))
    /\ oneOrEven(spreadToPrimaryPage(viewSpread))
    /\ active # NoActive => oneOrEven(spreadToPrimaryPage(pageToSpread(active.page)))

\* the binder views spread 1 with a card of page 2 selected
C22_SecondSpreadViewed ==
    /\ viewSpread = 1
    /\ active # NoActive
    /\ active.page = 2
    /\ pageToSpread(active.page) = 1
    /\ spreadToPrimaryPage(viewSpread) = 2

\* C23: choosing a suggestion of a set other than the active one makes that set
\* the active one and, once that set's cards are the ones displayed, the
\* selection is the suggestion's base card of that set (its number and name),
\* at its slot, with the spread of its page in view
C23_CrossSetChoice ==
    [][ \A i \in DOMAIN suggestions :
          LET s == suggestions[i]
          IN (onChoose(s) /\ s.setKey # setKey) =>
                /\ setKey' = s.setKey
                /\ shown'.key = s.setKey =>
                      /\ active' # NoActive
                      /\ active'.card.Number = s.number
                      /\ active'.card.Name = s.name
                      /\ active'.card.Set = s.setKey
                      /\ active'.page = binderLayout(s.number).page
                      /\ viewSpread' = pageToSpread(active'.page) ]_vars

\* C24: choosing a suggestion of the active set selects the base card the
\* suggestion names: afterwards the selection holds the card with the
\* suggestion's number, for number and name suggestions alike
C24_ChoiceSelectsSuggested ==
    [][ \A i \in DOMAIN suggestions :
          LET s == suggestions[i]
          IN (onChoose(s) /\ s.setKey = setKey /\ shown.key = setKey) =>
                /\ active' # NoActive
                /\ active'.card.Number = s.number ]_vars

\* C25: once no load() and no fetch is in flight any more and none has failed,
\* the displayed catalog (cardsAll, cardsBase, baseToAll, altToBase) is that of
\* the active set key
C25_DisplayFollowsActiveSet ==
    (sets # <<>> /\ loads = {} /\ fetches = {} /\ error = "") =>
        /\ shown.key = setKey
        /\ shown = Parsed(setKey)

\* C26: after any sequence of slot clicks, arrow-key moves, page flips and + and
\* - keys on the selection, every key of the ledger is a base card number of the
\* active set's catalog
C26_LedgerKeysAreBaseNumbers ==
    /\ DOMAIN inventory \subseteq baseNumbers(shown)
    /\ DOMAIN readSetInv(store, setKey) \subseteq baseNumbers(shown)

\* the numbers a ParsedSet holds: of allCards, of baseCards, and the keys and
\* values of its two alt maps
numbersIn(parsed) ==
    {parsed.allCards[i].Number : i \in DOMAIN parsed.allCards}
      \cup {parsed.baseCards[i].Number : i \in DOMAIN parsed.baseCards}
      \cup DOMAIN parsed.baseToAll
      \cup UNION {Range(parsed.baseToAll[b]) : b \in DOMAIN parsed.baseToAll}
      \cup DOMAIN parsed.altToBase
      \cup {parsed.altToBase[n] : n \in DOMAIN parsed.altToBase}

\* C27: every catalog the normalizer has built, cached or displayed, holds only
\* cards with a non-empty name and a number of at least 1
C27_OnlyPositiveNumbers ==
    \A parsed \in Range(parsedCache) \cup {shown} :
        /\ \A n \in numbersIn(parsed) : n >= 1
        /\ \A i \in DOMAIN parsed.allCards : parsed.allCards[i].Name # NoString

\* the numbers of the cards of parsed.allCards that share the normalized
\* (name, subtitle, type) of the card numbered b
groupOf(parsed, b) ==
    LET cs == parsed.allCards
    IN {cs[i].Number : i \in {i \in DOMAIN cs :
            \E j \in DOMAIN cs : cs[j].Number = b /\ keyNameType(cs[j]) = keyNameType(cs[i])}}

\* C28: in every catalog built, the baseToAll lists partition the numbers of
\* allCards by normalized (name, subtitle, type): each number is in exactly one
\* list, a list holds one group without repetition, its key is the lowest number
\* in it and a base card, and altToBase maps exactly the other numbers of each
\* list to that key, never a number to itself
C28_AltMapsPartition ==
    \A parsed \in Range(parsedCache) \cup {shown} :
        LET nums == {parsed.allCards[i].Number : i \in DOMAIN parsed.allCards}
            b2a  == parsed.baseToAll
            a2b  == parsed.altToBase
        IN /\ \A n \in nums : Cardinality({b \in DOMAIN b2a : n \in Range(b2a[b])}) = 1
           /\ \A b \in DOMAIN b2a :
                 /\ b2a[b] # <<>>
                 /\ b2a[b][1] = b
                 /\ \A i \in DOMAIN b2a[b] : i > 1 => b2a[b][i] > b2a[b][i - 1]
                 /\ Range(b2a[b]) = groupOf(parsed, b)
                 /\ b \in baseNumbers(parsed)
           /\ DOMAIN a2b = {n \in nums : \E b \in DOMAIN b2a : n \in Range(b2a[b]) /\ n # b}
           /\ \A k \in DOMAIN a2b : /\ a2b[k] # k
                                    /\ a2b[k] \in DOMAIN b2a
                                    /\ k \in Range(b2a[a2b[k]])

\* the catalog of SOR is cached: Yoda's group is <<3, 5>> with 5 an alt of 3, and
\* a catalog whose groups all have one number is cached with no alt entry
C28_AltGroupCached ==
    /\ \E parsed \in Range(parsedCache) :
          /\ parsed.key = SOR
          /\ parsed.baseToAll[3] = <<3, 5>>
          /\ DOMAIN parsed.altToBase = {5}
          /\ parsed.altToBase[5] = 3
    /\ \E parsed \in Range(parsedCache) :
          /\ parsed.allCards # <<>>
          /\ DOMAIN parsed.altToBase = {}

\* the numbers of the base cards on display that match a bulk target, in order
matching(target) ==
    LET cs == SelectSeq(cardsBase, LAMBDA c : processCard(c, target))
    IN [i \in DOMAIN cs |-> cs[i].Number]

\* inc, or dec, called once on each number of a list
RECURSIVE incEach(_, _)
incEach(nums, inv) == IF nums = <<>> THEN inv ELSE incEach(Tail(nums), inc(inv, Head(nums)))

RECURSIVE decEach(_, _)
decEach(nums, inv) == IF nums = <<>> THEN inv ELSE decEach(Tail(nums), dec(inv, Head(nums)))

\* C29: from every ledger reached, a bulk add of 1 to a target gives the ledger
\* that one inc on each matching base card gives, a bulk remove of 1 the ledger
\* that one dec on each of them gives, and neither changes the entry of a number
\* that is not a matching base card
C29_BulkIsIncDecEach ==
    \A target \in BulkTargets :
        LET added   == performBulkAction(inventory, "add", target, 1)
            removed == performBulkAction(inventory, "remove", target, 1)
        IN /\ added = incEach(matching(target), inventory)
           /\ removed = decEach(matching(target), inventory)
           /\ \A n \in (DOMAIN inventory \cup DOMAIN added \cup DOMAIN removed)
                          \ Range(matching(target)) :
                 /\ Qty(added, n) = Qty(inventory, n)
                 /\ Qty(removed, n) = Qty(inventory, n)

\* with the Leader of LOF at its quota and the Base not held, a bulk add to
\* every card changes the Base only and a bulk remove takes the Leader out
C29_LeaderHeldBaseNot ==
    /\ setKey = LOF
    /\ Qty(inventory, 1) = 1
    /\ Qty(inventory, 3) = 0
    /\ performBulkAction(inventory, "add", All, 1) = Put(inventory, 3, 1)
    /\ performBulkAction(inventory, "remove", All, 1) = Drop(inventory, 1)
    /\ Range(matching(BaseT)) = {3}

MaxSpread == 3     \* spreads over which the binder's cells are compared

\* C30: on every viewed spread, every visible cell (row r, spread column c; the
\* columns 1..4 of spread 0 are hidden) shows the number whose page lies on that
\* spread and whose spread coordinates are (c, r): spread 0 shows page 1 on its
\* right half, spread s >= 1 page 2s on the left and page 2s + 1 on the right;
\* so it is for the spread in view, and a selection made by a click sits in the
\* cell that was clicked
C30_CellsShowTheirNumbers ==
    /\ \A s \in (0..MaxSpread) \cup {viewSpread}, r \in 1..3, c \in 1..8 :
          LET n    == cellNumber(s, r, c)
              slot == binderLayout(n)
          IN /\ cellHidden(s, c) <=> (s = 0 /\ c <= 4)
             /\ ~cellHidden(s, c) =>
                   /\ n >= 1
                   /\ pageToSpread(slot.page) = s
                   /\ getSpreadCoords(slot.page, slot.row, slot.column)
                        = [spreadCol |-> c, spreadRow |-> r]
                   /\ slot.page = IF c <= 4 THEN 2 * s ELSE 2 * s + 1
    /\ (active # NoActive /\ pageToSpread(active.page) = viewSpread) =>
          cellNumber(viewSpread, active.spreadRow, active.spreadCol) = active.card.Number

\* spread 1 is in view with the card of its cell (row 1, spread column 2)
\* selected: Hera #14, on page 2
C30_LeftPageCellSelected ==
    /\ viewSpread = 1
    /\ active # NoActive
    /\ active.card.Number = 14
    /\ active.spreadCol = 2 /\ active.spreadRow = 1
    /\ cellNumber(1, 1, 2) = 14
    /\ ~cellHidden(1, 2)

=============================================================================
